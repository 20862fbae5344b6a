-------------------------- MODULE PublicationProofs -------------------------
(***************************************************************************)
(* What TLAPS proves of the kernel's generations, for any collections and  *)
(* chunk sets, and of publication, for any number of processes, chunks and *)
(* generations, and for any deaths, failures, losses and takeovers.        *)
(***************************************************************************)
EXTENDS Publication, FiniteSetTheorems, WellFoundedInduction, TLAPS

-----------------------------------------------------------------------------
(* The generations themselves. *)

(* What the stream of a collection should tell: the generations that were  *)
(* ever published there, and those that were retired since.                *)
EverPublished(c) ==
    {g \in Generation : collection[g] = c /\ gstate[g] \in {"published", "retired"}}
EverRetired(c) == {g \in Generation : collection[g] = c /\ gstate[g] = "retired"}

(* A stream that tells P published and R retired, each of them once and in *)
(* this order.                                                             *)
ToldIn(s, type, g) == \E n \in DOMAIN s : s[n] = [type |-> type, generation |-> g]
Chronicle(s, P, R) ==
    /\ s \in Seq(GenEvent)
    /\ \A g \in Generation : /\ ToldIn(s, "published", g) <=> g \in P
                             /\ ToldIn(s, "retired", g) <=> g \in R
    /\ \A m, n \in DOMAIN s : s[m].generation = s[n].generation /\ m < n =>
           s[m].type = "published" /\ s[n].type = "retired"

Chronicles == \A c \in Collection : Chronicle(events[c], EverPublished(c), EverRetired(c))

IInv == GenTypeOK /\ OnePublished /\ Chronicles

-----------------------------------------------------------------------------
(* What a stream is after one more event. *)
LEMMA OneMore ==
    ASSUME NEW s \in Seq(GenEvent), NEW e \in GenEvent
    PROVE  /\ s \o <<e>> \in Seq(GenEvent)
           /\ DOMAIN s = 1..Len(s) /\ Len(s) \in Nat
           /\ DOMAIN (s \o <<e>>) = 1..(Len(s) + 1)
           /\ \A n \in 1..Len(s) : (s \o <<e>>)[n] = s[n]
           /\ (s \o <<e>>)[Len(s) + 1] = e
  OBVIOUS

(* The events already told stay told, and the new one is told. *)
LEMMA ToldMore ==
    ASSUME NEW s \in Seq(GenEvent), NEW e \in GenEvent,
           NEW type, NEW g \in Generation
    PROVE  ToldIn(s \o <<e>>, type, g) <=>
              ToldIn(s, type, g) \/ e = [type |-> type, generation |-> g]
<1> DEFINE t == s \o <<e>>
<1>1. /\ DOMAIN s = 1..Len(s) /\ Len(s) \in Nat /\ DOMAIN t = 1..(Len(s) + 1)
      /\ \A n \in 1..Len(s) : t[n] = s[n]
      /\ t[Len(s) + 1] = e
  BY OneMore
<1> HIDE DEF t
<1>2. ToldIn(t, type, g) <=>
         ToldIn(s, type, g) \/ e = [type |-> type, generation |-> g]
  BY <1>1 DEF ToldIn
<1>. QED BY <1>2 DEF t

(* Telling that a generation is published, of which nothing was told. *)
LEMMA TellPublished ==
    ASSUME NEW s, NEW P, NEW R, Chronicle(s, P, R),
           NEW g \in Generation, g \notin P, g \notin R
    PROVE  Chronicle(s \o PublishedEvent(g), P \cup {g}, R)
<1> DEFINE e == [type |-> "published", generation |-> g]
           t == s \o <<e>>
<1>1. e \in GenEvent /\ s \in Seq(GenEvent)
  BY DEF GenEvent, Chronicle
<1>2. e.type = "published" /\ e.generation = g
  OBVIOUS
<1>3. \A h \in Generation, x \in {"published", "retired"} :
         ToldIn(t, x, h) <=> ToldIn(s, x, h) \/ (x = "published" /\ h = g)
  BY <1>1, ToldMore
<1>4. \A n \in DOMAIN s : s[n].generation # g
  <2> SUFFICES ASSUME NEW n \in DOMAIN s, s[n].generation = g PROVE FALSE
    OBVIOUS
  <2>1. s[n] \in GenEvent
    BY <1>1
  <2>2. s[n] = [type |-> s[n].type, generation |-> g] /\ s[n].type \in {"published", "retired"}
    BY <2>1 DEF GenEvent
  <2>3. ToldIn(s, s[n].type, g)
    BY <2>2 DEF ToldIn
  <2>. QED BY <2>2, <2>3 DEF Chronicle
<1>5. /\ t \in Seq(GenEvent) /\ DOMAIN s = 1..Len(s) /\ Len(s) \in Nat
      /\ DOMAIN t = 1..(Len(s) + 1)
      /\ \A n \in 1..Len(s) : t[n] = s[n]
      /\ t[Len(s) + 1] = e
  BY <1>1, OneMore
<1> HIDE DEF e, t
<1>6. \A m, n \in DOMAIN t : t[m].generation = t[n].generation /\ m < n =>
         t[m].type = "published" /\ t[n].type = "retired"
  <2> SUFFICES ASSUME NEW m \in DOMAIN t, NEW n \in DOMAIN t, m < n,
                      t[m].generation = t[n].generation
               PROVE  t[m].type = "published" /\ t[n].type = "retired"
    OBVIOUS
  <2>1. m \in DOMAIN s /\ t[m] = s[m]
    BY <1>5
  <2>2. n \in DOMAIN s /\ t[n] = s[n]
    BY <1>2, <1>4, <1>5, <2>1
  <2>. QED BY <2>1, <2>2 DEF Chronicle
<1>7. \A h \in Generation : /\ ToldIn(t, "published", h) <=> h \in P \cup {g}
                            /\ ToldIn(t, "retired", h) <=> h \in R
  BY <1>3 DEF Chronicle
<1>8. Chronicle(t, P \cup {g}, R)
  BY <1>5, <1>6, <1>7 DEF Chronicle
<1>. QED BY <1>8 DEF t, e, PublishedEvent

(* Telling that a generation is retired, which was told published. *)
LEMMA TellRetired ==
    ASSUME NEW s, NEW P, NEW R, Chronicle(s, P, R),
           NEW g \in Generation, g \in P, g \notin R
    PROVE  Chronicle(s \o RetiredEvents({g}), P, R \cup {g})
<1> DEFINE e == [type |-> "retired", generation |-> g]
           t == s \o <<e>>
<1>0. RetiredEvents({g}) = <<e>>
  BY DEF RetiredEvents
<1>1. e \in GenEvent /\ s \in Seq(GenEvent)
  BY DEF GenEvent, Chronicle
<1>2. e.type = "retired" /\ e.generation = g
  OBVIOUS
<1>3. \A h \in Generation, x \in {"published", "retired"} :
         ToldIn(t, x, h) <=> ToldIn(s, x, h) \/ (x = "retired" /\ h = g)
  BY <1>1, ToldMore
<1>4. \A n \in DOMAIN s : s[n].generation = g => s[n].type = "published"
  <2> SUFFICES ASSUME NEW n \in DOMAIN s, s[n].generation = g
               PROVE  s[n].type = "published"
    OBVIOUS
  <2>1. s[n] \in GenEvent
    BY <1>1
  <2>2. s[n] = [type |-> s[n].type, generation |-> g] /\ s[n].type \in {"published", "retired"}
    BY <2>1 DEF GenEvent
  <2>3. ToldIn(s, s[n].type, g)
    BY <2>2 DEF ToldIn
  <2>. QED BY <2>2, <2>3 DEF Chronicle
<1>5. /\ t \in Seq(GenEvent) /\ DOMAIN s = 1..Len(s) /\ Len(s) \in Nat
      /\ DOMAIN t = 1..(Len(s) + 1)
      /\ \A n \in 1..Len(s) : t[n] = s[n]
      /\ t[Len(s) + 1] = e
  BY <1>1, OneMore
<1> HIDE DEF e, t
<1>6. \A m, n \in DOMAIN t : t[m].generation = t[n].generation /\ m < n =>
         t[m].type = "published" /\ t[n].type = "retired"
  <2> SUFFICES ASSUME NEW m \in DOMAIN t, NEW n \in DOMAIN t, m < n,
                      t[m].generation = t[n].generation
               PROVE  t[m].type = "published" /\ t[n].type = "retired"
    OBVIOUS
  <2>1. m \in DOMAIN s /\ t[m] = s[m]
    BY <1>5
  <2>2. CASE n \in DOMAIN s
    BY <1>5, <2>1, <2>2 DEF Chronicle
  <2>3. CASE n = Len(s) + 1
    BY <1>2, <1>4, <1>5, <2>1, <2>3
  <2>. QED BY <1>5, <2>2, <2>3
<1>7. \A h \in Generation : /\ ToldIn(t, "published", h) <=> h \in P
                            /\ ToldIn(t, "retired", h) <=> h \in R \cup {g}
  BY <1>3 DEF Chronicle
<1>8. Chronicle(t, P, R \cup {g})
  BY <1>5, <1>6, <1>7 DEF Chronicle
<1>. QED BY <1>0, <1>8 DEF t

-----------------------------------------------------------------------------
LEMMA InitIInv == GenInit => IInv
<1> SUFFICES ASSUME GenInit PROVE IInv
  OBVIOUS
<1> USE DEF GenInit
<1>1. GenTypeOK
  <2>1. PICK x \in Collection : x = CHOOSE y \in Collection : TRUE
    BY GenerationsAssumption
  <2>2. PICK z \in ChunkSet : z = CHOOSE y \in ChunkSet : TRUE
    BY GenerationsAssumption
  <2>3. collection = [g \in Generation |-> x] /\ chunkSet = [g \in Generation |-> z]
    BY <2>1, <2>2
  <2>4. << >> \in Seq(GenEvent)
    OBVIOUS
  <2>5. events \in [Collection -> Seq(GenEvent)]
    BY <2>4
  <2>. QED BY <2>3, <2>5 DEF GenTypeOK
<1>2. Chronicles
  <2> SUFFICES ASSUME NEW c \in Collection
               PROVE  Chronicle(events[c], EverPublished(c), EverRetired(c))
    BY DEF Chronicles
  <2>. QED BY DEF Chronicle, ToldIn, EverPublished, EverRetired
<1>. QED BY <1>1, <1>2 DEF IInv, OnePublished

(* A step that publishes and retires nothing and tells nothing. *)
LEMMA Quiet ==
    ASSUME IInv, GenTypeOK', events' = events,
           \A g \in Generation :
              \/ /\ gstate'[g] = gstate[g] /\ collection'[g] = collection[g]
              \/ /\ gstate[g] \in {"none", "building", "verified"}
                 /\ gstate'[g] \in {"building", "verified", "failed"}
    PROVE  IInv'
<1>1. OnePublished'
  BY DEF IInv, OnePublished
<1>2. \A c \in Collection : EverPublished(c)' = EverPublished(c) /\ EverRetired(c)' = EverRetired(c)
  BY DEF EverPublished, EverRetired
<1>3. Chronicles'
  BY <1>2 DEF IInv, Chronicles
<1>. QED BY <1>1, <1>3 DEF IInv

(* The generation that was published, if one was, is told retired. *)
LEMMA PublishInKeeps ==
    ASSUME IInv, NEW g \in Generation, gstate[g] = "verified", PublishIn(g)
    PROVE  IInv'
<1>0. collection[g] \in Collection
  BY DEF IInv, GenTypeOK
<1> PICK c \in Collection : c = collection[g]
  BY <1>0
<1> DEFINE before == PublishedIn(c)
           told == events[c] \o RetiredEvents(before)
<1>1. GenTypeOK /\ OnePublished /\ c \in Collection
  BY DEF IInv, GenTypeOK
<1>2. Chronicle(events[c], EverPublished(c), EverRetired(c))
  BY <1>1 DEF IInv, Chronicles
<1>3. Chronicle(told, EverPublished(c), EverRetired(c) \cup before)
  <2>1. CASE before = {}
    <3>1. RetiredEvents(before) = << >> /\ events[c] \in Seq(GenEvent)
      BY <1>2, <2>1 DEF RetiredEvents, Chronicle
    <3>2. told = events[c]
      BY <3>1
    <3>. QED BY <1>2, <2>1, <3>2
  <2>2. CASE before # {}
    <3>1. PICK h \in Generation : h \in before
      BY <2>2 DEF PublishedIn
    <3>2. before = {h}
      BY <1>1, <3>1 DEF PublishedIn, OnePublished
    <3>3. h \in EverPublished(c) /\ h \notin EverRetired(c)
      BY <3>1 DEF PublishedIn, EverPublished, EverRetired
    <3>. QED BY <1>2, <3>2, <3>3, TellRetired
  <2>. QED BY <2>1, <2>2
<1>4. g \notin EverPublished(c) /\ g \notin EverRetired(c) \cup before
  BY DEF EverPublished, EverRetired, PublishedIn
<1> HIDE DEF told
<1>5. Chronicle(told \o PublishedEvent(g), EverPublished(c) \cup {g},
                EverRetired(c) \cup before)
  BY <1>3, <1>4, TellPublished
<1>6. events' = [events EXCEPT ![c] = told \o PublishedEvent(g)]
  BY DEF PublishIn, told
<1>7. GenTypeOK'
  <2>1. events' \in [Collection -> Seq(GenEvent)]
    BY <1>1, <1>5, <1>6 DEF GenTypeOK, Chronicle
  <2>. QED BY <1>1, <2>1 DEF GenTypeOK, GenState, PublishIn
<1>8. /\ EverPublished(c)' = EverPublished(c) \cup {g}
      /\ EverRetired(c)' = EverRetired(c) \cup before
  BY <1>1 DEF EverPublished, EverRetired, PublishedIn, PublishIn
<1>9. ASSUME NEW d \in Collection, d # c
      PROVE  EverPublished(d)' = EverPublished(d) /\ EverRetired(d)' = EverRetired(d)
  BY <1>1, <1>9 DEF EverPublished, EverRetired, PublishedIn, PublishIn
<1>10. OnePublished'
  BY <1>1 DEF OnePublished, PublishedIn, PublishIn, GenTypeOK
<1>11. Chronicles'
  <2> SUFFICES ASSUME NEW d \in Collection
               PROVE  Chronicle(events'[d], EverPublished(d)', EverRetired(d)')
    BY DEF Chronicles
  <2>1. CASE d = c
    <3>1. events'[d] = told \o PublishedEvent(g)
      BY <1>1, <1>6, <2>1 DEF GenTypeOK
    <3>. QED BY <1>5, <1>8, <2>1, <3>1
  <2>2. CASE d # c
    <3>1. events'[d] = events[d]
      BY <1>1, <1>6, <2>2 DEF GenTypeOK
    <3>. QED BY <1>9, <2>2, <3>1 DEF IInv, Chronicles
  <2>. QED BY <2>1, <2>2
<1>. QED BY <1>7, <1>10, <1>11 DEF IInv

LEMMA RetireKeeps ==
    ASSUME IInv, NEW g \in Generation, RetireGeneration(g)
    PROVE  IInv'
<1>0. collection[g] \in Collection
  BY DEF IInv, GenTypeOK
<1> PICK c \in Collection : c = collection[g]
  BY <1>0
<1> DEFINE told == events[c] \o RetiredEvents({g})
<1>1. GenTypeOK /\ OnePublished /\ c \in Collection /\ gstate[g] = "published"
  BY DEF IInv, GenTypeOK, RetireGeneration, LegalMove, GenMayMoveTo
<1>2. Chronicle(events[c], EverPublished(c), EverRetired(c))
  BY <1>1 DEF IInv, Chronicles
<1>3. g \in EverPublished(c) /\ g \notin EverRetired(c)
  BY <1>1 DEF EverPublished, EverRetired
<1>4. Chronicle(told, EverPublished(c), EverRetired(c) \cup {g})
  BY <1>2, <1>3, TellRetired
<1> HIDE DEF told
<1>5. events' = [events EXCEPT ![c] = told]
  BY DEF RetireGeneration, told
<1>6. GenTypeOK'
  <2>1. events' \in [Collection -> Seq(GenEvent)]
    BY <1>1, <1>4, <1>5 DEF GenTypeOK, Chronicle
  <2>. QED BY <1>1, <2>1 DEF GenTypeOK, GenState, RetireGeneration
<1>7. EverPublished(c)' = EverPublished(c) /\ EverRetired(c)' = EverRetired(c) \cup {g}
  BY <1>1 DEF EverPublished, EverRetired, RetireGeneration, GenTypeOK
<1>8. ASSUME NEW d \in Collection, d # c
      PROVE  EverPublished(d)' = EverPublished(d) /\ EverRetired(d)' = EverRetired(d)
  BY <1>1, <1>8 DEF EverPublished, EverRetired, RetireGeneration, GenTypeOK
<1>9. OnePublished'
  BY <1>1 DEF OnePublished, RetireGeneration, GenTypeOK
<1>10. Chronicles'
  <2> SUFFICES ASSUME NEW d \in Collection
               PROVE  Chronicle(events'[d], EverPublished(d)', EverRetired(d)')
    BY DEF Chronicles
  <2>1. CASE d = c
    <3>1. events'[d] = told
      BY <1>1, <1>5, <2>1 DEF GenTypeOK
    <3>. QED BY <1>4, <1>7, <2>1, <3>1
  <2>2. CASE d # c
    <3>1. events'[d] = events[d]
      BY <1>1, <1>5, <2>2 DEF GenTypeOK
    <3>. QED BY <1>8, <2>2, <3>1 DEF IInv, Chronicles
  <2>. QED BY <2>1, <2>2
<1>. QED BY <1>6, <1>9, <1>10 DEF IInv

(* Every call preserves the inductive invariant. *)
LEMMA NextIInv == IInv /\ [GenNext]_genVars => IInv'
<1> SUFFICES ASSUME IInv, [GenNext]_genVars PROVE IInv'
  OBVIOUS
<1>0. GenTypeOK
  BY DEF IInv
<1>1. CASE \E g \in Generation, c \in Collection, s \in ChunkSet : CreateGeneration(g, c, s)
  <2> PICK g \in Generation, c \in Collection, s \in ChunkSet : CreateGeneration(g, c, s)
    BY <1>1
  <2>1. GenTypeOK'
    BY <1>0 DEF GenTypeOK, GenState, CreateGeneration
  <2>. QED BY <1>0, <2>1, Quiet DEF GenTypeOK, CreateGeneration
<1> USE <1>0
<1>2. ASSUME NEW g \in Generation, VerifyGeneration(g) \/ FailGeneration(g)
      PROVE  IInv'
  <2>1. GenTypeOK'
    BY <1>2 DEF GenTypeOK, GenState, VerifyGeneration, FailGeneration
  <2>. QED BY <1>2, <2>1, Quiet
           DEF GenTypeOK, VerifyGeneration, FailGeneration, LegalMove, GenMayMoveTo
<1>3. ASSUME NEW g \in Generation, BeginSearch(g) \/ CompleteSearch(g)
      PROVE  IInv'
  <2>1. GenTypeOK'
    BY <1>3 DEF GenTypeOK, BeginSearch, CompleteSearch
  <2>. QED BY <1>3, <2>1, Quiet DEF BeginSearch, CompleteSearch
<1>4. ASSUME NEW g \in Generation, LegalMove(g, "published"), PublishIn(g)
      PROVE  IInv'
  BY <1>4, PublishInKeeps DEF LegalMove, GenMayMoveTo
<1>5. CASE UNCHANGED genVars
  <2>1. GenTypeOK'
    BY <1>5 DEF GenTypeOK, genVars
  <2>. QED BY <1>5, <2>1, Quiet DEF genVars
<1>. QED
  BY <1>1, <1>2, <1>3, <1>4, <1>5, RetireKeeps
     DEF GenNext, PublishGeneration, PublishGenerationIfCurrent

LEMMA Inductive == GenSpec => []IInv
<1>. QED BY InitIInv, NextIInv, PTL DEF GenSpec

-----------------------------------------------------------------------------
(* Type correctness of the generation rows and of their streams.           *)
THEOREM GenTypeCorrect == GenSpec => []GenTypeOK
<1>1. IInv => GenTypeOK
  BY DEF IInv
<1>. QED BY <1>1, Inductive, PTL

(* At most one generation of a collection is published, whoever calls:     *)
(* publish_in retires before it publishes, in one transaction.             *)
THEOREM OnePublishedHolds == GenSpec => []OnePublished
<1>1. IInv => OnePublished
  BY DEF IInv
<1>. QED BY <1>1, Inductive, PTL

(* The stream of a collection tells which generation is published.         *)
THEOREM StreamTellsPublishedHolds == GenSpec => []StreamTellsPublished
<1>1. IInv => StreamTellsPublished
  <2> SUFFICES ASSUME IInv, NEW c \in Collection
               PROVE  Told(c, "published") \ Told(c, "retired") = PublishedIn(c)
    BY DEF StreamTellsPublished
  <2>1. \A g \in Generation : /\ g \in Told(c, "published") <=> g \in EverPublished(c)
                              /\ g \in Told(c, "retired") <=> g \in EverRetired(c)
    BY DEF IInv, Chronicles, Chronicle, ToldIn, Told
  <2>2. \A g : g \in Told(c, "published") \/ g \in PublishedIn(c) => g \in Generation
    BY DEF Told, PublishedIn
  <2>3. \A g \in Generation : g \in PublishedIn(c) <=>
            g \in EverPublished(c) /\ g \notin EverRetired(c)
    BY DEF PublishedIn, EverPublished, EverRetired
  <2>. QED BY <2>1, <2>2, <2>3
<1>. QED BY <1>1, Inductive, PTL

(* What is told of a generation is told once, publication first.           *)
THEOREM ToldOnceHolds == GenSpec => []ToldOnce
<1>1. IInv => ToldOnce
  BY DEF IInv, Chronicles, Chronicle, ToldOnce
<1>. QED BY <1>1, Inductive, PTL

(* No call brings back a generation that was retired or that failed, nor   *)
(* touches its search marker.                                              *)
THEOREM OverIsOverHolds == GenSpec => OverIsOver
<1>1. ASSUME IInv, [GenNext]_genVars, NEW g \in Generation,
             gstate[g] \in {"retired", "failed"}
      PROVE  gstate'[g] = gstate[g] /\ search'[g] = search[g]
  <2> USE <1>1 DEF IInv, GenTypeOK
  <2>1. CASE UNCHANGED genVars
    BY <2>1 DEF genVars
  <2>2. CASE \E h \in Generation, c \in Collection, s \in ChunkSet : CreateGeneration(h, c, s)
    BY <2>2 DEF CreateGeneration
  <2>3. ASSUME NEW h \in Generation, VerifyGeneration(h) \/ FailGeneration(h) \/ RetireGeneration(h)
        PROVE  gstate'[g] = gstate[g] /\ search'[g] = search[g]
    BY <2>3 DEF VerifyGeneration, FailGeneration, RetireGeneration, LegalMove, GenMayMoveTo
  <2>4. ASSUME NEW h \in Generation, LegalMove(h, "published"), PublishIn(h)
        PROVE  gstate'[g] = gstate[g] /\ search'[g] = search[g]
    BY <2>4 DEF PublishIn, PublishedIn, LegalMove, GenMayMoveTo
  <2>5. ASSUME NEW h \in Generation, BeginSearch(h) \/ CompleteSearch(h)
        PROVE  gstate'[g] = gstate[g] /\ search'[g] = search[g]
    BY <2>5 DEF BeginSearch, CompleteSearch
  <2>. QED
    BY <2>1, <2>2, <2>3, <2>4, <2>5
       DEF GenNext, PublishGeneration, PublishGenerationIfCurrent
<1>2. IInv /\ [GenNext]_genVars =>
         [\A g \in Generation : gstate[g] \in {"retired", "failed"} =>
             gstate'[g] = gstate[g] /\ search'[g] = search[g]]_genVars
  BY <1>1
<1>. QED BY <1>2, Inductive, PTL DEF GenSpec, OverIsOver

-----------------------------------------------------------------------------
(* The publication over the generations. *)

Label == {"start", "freeze", "acquire", "succeeded", "failed", "done", "died",
          "select", "create", "exists", "begin", "ensure", "upsert", "journal",
          "rollback", "check", "ready", "verify", "fail", "restore", "switch",
          "publish", "load", "alias", "target", "initial", "profile", "reconcile",
          "realign", "recheck", "confirm"}
Idle == {"start", "freeze", "acquire", "done", "died"}
Over == {"succeeded", "failed"}
(* Steps before a generation is chosen, and those about one. *)
Choosing == {"select", "create", "load", "alias", "target"}
AtWork == Label \ (Idle \cup Over \cup Choosing)
Building == {"begin", "ensure", "upsert", "journal", "check"}

PubTypes ==
    /\ held \subseteq Generation
    /\ points \in [Generation -> SUBSET (1..Chunks)]
    /\ alias \in Generation \cup {0}
    /\ owner \in Process \cup {Nobody}
    /\ progress \in [Key -> Progress]
    /\ guard \in [Again -> [set : ChunkSet \cup {NoKey}, expected : Generation \cup {0},
                            watermark : Nat]]
    /\ job \in [Key -> {"none", "running", "succeeded", "failed", "cancelled"}]
    /\ lost \subseteq Generation
    /\ stalls \in Nat
    /\ req \in [Process -> Request]
    /\ pc \in [Process -> Label]
    /\ key \in [Process -> Key \cup {NoKey}]
    /\ work \in [Process -> Work]

(* What a generation keeps: unless Qdrant lost it, its points.             *)
Written(g, n) == g \in lost \/ 1..n \subseteq points[g]
Present(g) == g \in lost \/ g \in held
Sound(g) == g \in lost \/ (g \in held /\ points[g] = 1..Chunks)

(* The set a key's job is about. *)
SetOf(k) == IF k \in Again THEN guard[k].set ELSE k
IsOf(g, s) == g \in Generation /\ gstate[g] # "none" /\ chunkSet[g] = s

GenerationsKept ==
    \A g \in Generation :
        /\ collection[g] = C
        /\ g \notin held => points[g] = {}
        /\ gstate[g] \in {"verified", "published", "retired"} => search[g] = "ready" /\ Sound(g)
        /\ gstate[g] = "failed" => g \in lost

ProgressKept ==
    \A k \in Key :
        /\ progress[k].generation # 0 =>
              /\ IsOf(progress[k].generation, SetOf(k))
              /\ Written(progress[k].generation, progress[k].indexed)
        /\ k \in Again /\ guard[k].set = NoKey => progress[k].generation = 0

(* What a process may rely on, whoever has the lease. *)
Relies(p) ==
    LET w == work[p] IN
    /\ pc[p] \notin {"start", "freeze", "done", "died"} =>
          /\ key[p] \in Key /\ SetOf(key[p]) = req[p].set
          /\ key[p] \in Again <=> Rebuilds(p)
    /\ pc[p] \in {"start", "freeze"} => Rebuilds(p)
    /\ pc[p] = "acquire" /\ ~Rebuilds(p) => w.was = 0
    /\ w.resume.generation # 0 =>
          /\ IsOf(w.resume.generation, req[p].set)
          /\ Written(w.resume.generation, w.resume.indexed)
    /\ pc[p] \in AtWork => IsOf(w.gen, req[p].set) /\ w.step # "Over"
    /\ pc[p] \in Building => w.step \in {"Build", "Check"}
    /\ pc[p] = "rollback" => w.step = "Check"
    /\ pc[p] \in {"ensure", "upsert", "journal"} => Written(w.gen, w.indexed)
    /\ pc[p] \in {"upsert", "journal"} => Present(w.gen)
    /\ pc[p] \in AtWork /\ w.step = "Check" => Sound(w.gen)
    /\ pc[p] \in {"check", "ready", "verify"} => Sound(w.gen)
    /\ pc[p] = "verify" => search[w.gen] = "ready"
    /\ pc[p] = "fail" => w.gen \in lost

(* A collection that is there is whole. *)
Firm(g) == g \in held => points[g] = 1..Chunks

(* What the owner of the lease may rely on too, while nobody else works.   *)
Owns(p) ==
    LET w == work[p]
        s == gstate[w.gen]
    IN
    /\ pc[p] \notin Idle => owner = p
    /\ pc[p] \in Label \ (Idle \cup Over \cup {"load"}) /\ w.was # 0 => gstate[w.was] = "published"
    /\ pc[p] \in Building \cup {"rollback"} => s = IF w.step = "Build" THEN "building" ELSE "verified"
    /\ pc[p] \in {"initial", "profile"} => w.step = StepOf(s)
    /\ pc[p] \in {"ready", "verify"} => s = "building" /\ Firm(w.gen)
    /\ pc[p] \in {"recheck", "switch", "confirm", "publish"} => s = "verified" /\ Firm(w.gen)
    /\ pc[p] \in {"confirm", "publish"} => alias \in {w.gen, 0}
    /\ pc[p] = "exists" => s = "published"
    /\ pc[p] \in {"reconcile", "realign"} => w.was = w.gen
    /\ pc[p] = "succeeded" => \E g \in Generation : gstate[g] = "published" /\ chunkSet[g] = SetOf(key[p])

Alone ==
    /\ \A p \in Process : Owns(p)
    /\ \A g \in Generation : gstate[g] = "published" => Firm(g)
    /\ AliasNeverBehind

PublicationInv ==
    /\ IInv
    /\ PubTypes
    /\ GenerationsKept
    /\ ProgressKept
    /\ \A p \in Process : Relies(p)
    /\ stalls = 0 => Alone

-----------------------------------------------------------------------------
(* What no step undoes, and what it leaves to the processes that did not   *)
(* make it.                                                                *)

Lasting ==
    /\ lost \subseteq lost'
    /\ \A g \in Generation :
          /\ g \notin lost' => (g \in held => g \in held') /\ points[g] \subseteq points'[g]
          /\ search[g] = "ready" => search'[g] = "ready"
          /\ gstate[g] # "none" => gstate'[g] # "none" /\ chunkSet'[g] = chunkSet[g]
    /\ \A k \in Key : SetOf(k)' = SetOf(k) \/ (k \in Again /\ guard[k].set = NoKey)

Steps(p, l, w, k) ==
    /\ pc' = [pc EXCEPT ![p] = l] /\ work' = [work EXCEPT ![p] = w]
    /\ key' = [key EXCEPT ![p] = k] /\ req' = req

LEMMA WrittenLasts ==
    ASSUME PubTypes, PubTypes', Lasting, NEW g \in Generation
    PROVE  /\ \A n : Written(g, n) => Written(g, n)'
           /\ Present(g) => Present(g)'
           /\ Sound(g) => Sound(g)'
<1>1. points'[g] \subseteq 1..Chunks
  BY DEF PubTypes
<1>. QED BY <1>1 DEF Lasting, Written, Present, Sound

LEMMA IsOfLasts ==
    ASSUME Lasting, NEW g, NEW s, IsOf(g, s)
    PROVE  IsOf(g, s)'
BY DEF Lasting, IsOf

LEMMA ReliesLasts ==
    ASSUME PublicationInv, PubTypes', Lasting, NEW q \in Process, pc'[q] = pc[q],
           work'[q] = work[q], key'[q] = key[q], req' = req
    PROVE  Relies(q)'
<1>0. PubTypes /\ Relies(q) /\ req[q].set \in ChunkSet /\ NoKey \notin ChunkSet
  BY NamesAreNew DEF PublicationInv, PubTypes, Request, Key
<1>1. /\ work[q].gen \in Generation \cup {0} /\ work[q].resume.generation \in Generation \cup {0}
      /\ 0 \notin Generation
  BY SMTT(30), <1>0 DEF PubTypes, Work, Progress, Generation
<1>2. pc[q] \notin {"start", "freeze", "done", "died"} =>
          key[q] \in Key /\ SetOf(key[q])' = req[q].set
  BY <1>0 DEF Relies, Lasting, SetOf
<1>3. work[q].resume.generation # 0 =>
          /\ IsOf(work[q].resume.generation, req[q].set)'
          /\ Written(work[q].resume.generation, work[q].resume.indexed)'
  <2>1. SUFFICES ASSUME work[q].resume.generation # 0
                 PROVE  /\ IsOf(work[q].resume.generation, req[q].set)'
                        /\ Written(work[q].resume.generation, work[q].resume.indexed)'
    OBVIOUS
  <2>2. /\ IsOf(work[q].resume.generation, req[q].set)
        /\ Written(work[q].resume.generation, work[q].resume.indexed)
    BY <1>0, <2>1 DEF Relies
  <2>3. IsOf(work[q].resume.generation, req[q].set)'
    BY <2>2 DEF Lasting, IsOf
  <2>4. Written(work[q].resume.generation, work[q].resume.indexed)'
    BY <1>1, <2>1, <2>2 DEF Lasting, Written
  <2>. QED BY <2>3, <2>4
<1>4. pc[q] \in AtWork => IsOf(work[q].gen, req[q].set)'
  BY <1>0 DEF Relies, Lasting, IsOf
<1>5. ASSUME pc[q] \in AtWork
      PROVE  /\ \A n : Written(work[q].gen, n) => (Written(work[q].gen, n))'
             /\ Present(work[q].gen) => Present(work[q].gen)'
             /\ Sound(work[q].gen) => Sound(work[q].gen)'
             /\ search[work[q].gen] = "ready" => search'[work[q].gen] = "ready"
             /\ work[q].gen \in lost => work[q].gen \in lost'
  <2>1. work[q].gen \in Generation
    BY <1>0, <1>5 DEF Relies, IsOf
  <2>2. points'[work[q].gen] \subseteq 1..Chunks
    BY <2>1 DEF PubTypes
  <2>. QED BY <2>1, <2>2 DEF Lasting, Written, Present, Sound
<1>. QED
  BY <1>0, <1>2, <1>3, <1>4, <1>5 DEF Relies, Rebuilds, AtWork, Label, Idle, Over, Choosing,
     Building, Written, Present, Sound

LEMMA StepsTypes ==
    ASSUME PubTypes, NEW p \in Process, NEW l \in Label, NEW w \in Work,
           NEW k \in Key \cup {NoKey}, Steps(p, l, w, k)
    PROVE  /\ pc' \in [Process -> Label] /\ work' \in [Process -> Work]
           /\ key' \in [Process -> Key \cup {NoKey}] /\ req' \in [Process -> Request]
           /\ pc'[p] = l /\ work'[p] = w /\ key'[p] = k
           /\ \A q \in Process \ {p} : pc'[q] = pc[q] /\ work'[q] = work[q] /\ key'[q] = key[q]
BY DEF PubTypes, Steps

(* What the owner of the lease does.                                       *)
LEMMA OwnerStep ==
    ASSUME PublicationInv, NEW p \in Process, pc[p] \notin Idle,
           NEW l \in Label, NEW w \in Work, NEW k \in Key \cup {NoKey}, Steps(p, l, w, k),
           IInv', PubTypes', Lasting, GenerationsKept', ProgressKept', Relies(p)',
           stalls' = stalls,
           Alone => /\ Owns(p)' /\ AliasNeverBehind'
                    /\ \A g \in Generation : gstate'[g] = "published" => Firm(g)'
    PROVE  PublicationInv'
<1>0. PubTypes
  BY DEF PublicationInv
<1>1. \A q \in Process \ {p} : pc'[q] = pc[q] /\ work'[q] = work[q] /\ key'[q] = key[q]
  BY <1>0, StepsTypes
<1>2. ASSUME NEW q \in Process \ {p}
      PROVE  Relies(q)'
  BY <1>1, ReliesLasts DEF Steps
<1>3. ASSUME stalls = 0, NEW q \in Process \ {p}
      PROVE  Owns(q)'
  <2>1. Owns(p) /\ Owns(q)
    BY <1>3 DEF PublicationInv, Alone
  <2>2. pc[q] \in Idle
    BY <2>1 DEF Owns
  <2>3. pc'[q] \in Idle
    BY <1>1, <2>2
  <2>. QED BY <2>3 DEF Owns, Idle, Over, Building
<1>. QED BY <1>2, <1>3 DEF PublicationInv, Alone

(* What a process does before it takes the lease, or is refused it.        *)
LEMMA IdleStep ==
    ASSUME PublicationInv, NEW p \in Process, NEW l \in Label, NEW w \in Work,
           NEW k \in Key \cup {NoKey}, Steps(p, l, w, k),
           UNCHANGED <<genVars, storeVars, progress, lost>>, PubTypes', Lasting,
           ProgressKept', Relies(p)', stalls' = 0 => stalls = 0,
           Alone /\ stalls' = 0 => /\ Owns(p)'
                    /\ \A q \in Process \ {p} : pc[q] \notin Idle => owner' = owner
    PROVE  PublicationInv'
<1>0. PubTypes
  BY DEF PublicationInv
<1>1. \A q \in Process \ {p} : pc'[q] = pc[q] /\ work'[q] = work[q] /\ key'[q] = key[q]
  BY <1>0, StepsTypes
<1>2. ASSUME NEW q \in Process \ {p}
      PROVE  Relies(q)'
  BY <1>1, ReliesLasts DEF Steps
<1>3. /\ UNCHANGED <<gstate, collection, chunkSet, search, events, held, points, alias, lost>>
  BY DEF genVars, storeVars
<1>4. IInv'
  BY NextIInv DEF PublicationInv
<1>5. GenerationsKept'
  BY <1>3 DEF PublicationInv, GenerationsKept, Sound
<1>6. ASSUME stalls' = 0, NEW q \in Process \ {p}
      PROVE  Owns(q)'
  <2>1. Owns(q) /\ Alone
    BY <1>6 DEF PublicationInv, Alone
  <2>2. pc[q] = "succeeded" => SetOf(key[q])' = SetOf(key[q])
    <3>1. Relies(q) /\ req[q].set \in ChunkSet /\ NoKey \notin ChunkSet /\ key'[q] = key[q]
      BY <1>0, <1>1, NamesAreNew DEF PublicationInv, PubTypes, Request, Key
    <3>2. pc[q] = "succeeded" =>
             key[q] \in Key /\ ~(key[q] \in Again /\ guard[key[q]].set = NoKey)
      BY <3>1 DEF Relies, SetOf
    <3>3. pc[q] = "succeeded" =>
             (IF key[q] \in Again THEN guard'[key[q]].set ELSE key[q]) = SetOf(key[q])
      BY <3>2 DEF Lasting, SetOf
    <3>. QED BY <3>1, <3>3 DEF SetOf
  <2>. QED
    BY <1>1, <1>3, <1>6, <2>1, <2>2 DEF Owns, Firm
<1>7. stalls' = 0 => AliasNeverBehind' /\ \A g \in Generation : gstate'[g] = "published" => Firm(g)'
  BY <1>3 DEF PublicationInv, Alone, AliasNeverBehind, Firm
<1>. QED BY <1>2, <1>4, <1>5, <1>6, <1>7 DEF PublicationInv, Alone

(* A step that only reads.                                                 *)
LEMMA QuietLasts ==
    ASSUME PublicationInv, UNCHANGED <<genVars, storeVars, progress, guard, lost>>
    PROVE  Lasting /\ GenerationsKept' /\ ProgressKept' /\ IInv'
<1>1. UNCHANGED <<gstate, collection, chunkSet, search, events, held, points, alias, lost>>
  BY DEF genVars, storeVars
<1>2. IInv'
  BY NextIInv DEF PublicationInv
<1>. QED
  BY <1>1, <1>2 DEF PublicationInv, Lasting, GenerationsKept, ProgressKept, Sound, Written, SetOf, IsOf

LEMMA QuietStep ==
    ASSUME PublicationInv, NEW p \in Process, pc[p] \notin Idle,
           NEW l \in Label, NEW w \in Work, NEW k \in Key \cup {NoKey}, Steps(p, l, w, k),
           UNCHANGED <<genVars, storeVars, jobVars, lost, stalls>>,
           Relies(p)', Alone => Owns(p)'
    PROVE  PublicationInv'
<1>1. PubTypes
  BY DEF PublicationInv
<1>2. PubTypes'
  BY <1>1, StepsTypes DEF PubTypes, storeVars, jobVars
<1>3. Lasting /\ GenerationsKept' /\ ProgressKept' /\ IInv'
  BY QuietLasts DEF jobVars
<1>4. Alone => AliasNeverBehind' /\ \A g \in Generation : gstate'[g] = "published" => Firm(g)'
  BY DEF Alone, AliasNeverBehind, Firm, genVars, storeVars
<1>. QED BY <1>2, <1>3, <1>4, OwnerStep

LEMMA WorkTypes ==
    /\ Fresh \in Work
    /\ \A w \in Work : /\ \A n \in 0..Chunks : [w EXCEPT !.indexed = n] \in Work
                       /\ \A g \in Generation \cup {0} : [w EXCEPT !.was = g] \in Work
                       /\ \A r \in Progress : [w EXCEPT !.resume = r] \in Work
BY PublicationAssumption DEF Work, Fresh, None, Progress

(* What Published is. *)
LEMMA PublishedIs ==
    ASSUME IInv, \A g \in Generation : collection[g] = C
    PROVE  /\ C \in Collection
           /\ Published \in Generation \cup {0} /\ 0 \notin Generation
           /\ Published # 0 => gstate[Published] = "published"
           /\ \A g \in Generation : gstate[g] = "published" => Published = g
           /\ PublishedIn(C) = {Published} \ {0}
<1>1. C \in Collection
  BY GenerationsAssumption DEF C
<1>2. 0 \notin Generation
  BY DEF Generation
<1>3. CASE PublishedIn(C) = {}
  BY <1>1, <1>2, <1>3 DEF Published, PublishedIn
<1>4. CASE PublishedIn(C) # {}
  <2>1. Published \in PublishedIn(C)
    BY <1>4 DEF Published
  <2>2. \A g, h \in PublishedIn(C) : g = h
    BY DEF PublishedIn, IInv, OnePublished
  <2>3. Published \in Generation /\ gstate[Published] = "published"
    BY <2>1 DEF PublishedIn
  <2>4. \A g \in Generation : gstate[g] = "published" => g \in PublishedIn(C)
    BY DEF PublishedIn
  <2>. QED BY <1>1, <1>2, <2>1, <2>2, <2>3, <2>4
<1>. QED BY <1>3, <1>4

LEMMA SawIs ==
    ASSUME PublicationInv, NEW p \in Process
    PROVE  /\ SawPublished(p) \in Work
           /\ SawPublished(p).gen = work[p].gen /\ SawPublished(p).step = work[p].step
           /\ SawPublished(p).resume = work[p].resume /\ SawPublished(p).was = Published
           /\ SawPublished(p).indexed = work[p].indexed
<1>1. work[p] \in Work
  BY DEF PublicationInv, PubTypes
<1>2. Published \in Generation \cup {0}
  BY PublishedIs DEF PublicationInv, GenerationsKept
<1>. QED BY <1>1, <1>2 DEF SawPublished, Work

(* Where a step that goes on, or one that ends the work, leaves a process. *)
LEMMA MovesTo ==
    ASSUME PubTypes, NEW p \in Process, NEW l \in Label \ Over, NEW w \in Work,
           Moves(p, l, w), UNCHANGED <<req, key>>
    PROVE  /\ Steps(p, l, w, key[p]) /\ key[p] \in Key \cup {NoKey}
           /\ pc'[p] = l /\ work'[p] = w /\ key'[p] = key[p] /\ req' = req
<1>1. Steps(p, l, w, key[p]) /\ key[p] \in Key \cup {NoKey}
  BY DEF PubTypes, Moves, Steps, Over
<1>. QED BY <1>1, StepsTypes

LEMMA EndsIn ==
    ASSUME PublicationInv, NEW p \in Process, pc[p] \notin Idle, NEW l \in Over, NEW w,
           Moves(p, l, w), UNCHANGED <<req, key, guard>>
    PROVE  /\ Steps(p, l, Fresh, key[p]) /\ l \in Label /\ Fresh \in Work
           /\ key[p] \in Key \cup {NoKey}
           /\ pc'[p] = l /\ work'[p] = Fresh /\ key'[p] = key[p] /\ req' = req
           /\ Relies(p)'
<1>0. PubTypes /\ Relies(p)
  BY DEF PublicationInv
<1>1. /\ Steps(p, l, Fresh, key[p]) /\ l \in Label /\ Fresh \in Work
      /\ key[p] \in Key \cup {NoKey}
  BY <1>0, WorkTypes DEF Moves, Steps, Label, Over, PubTypes
<1>2. pc'[p] = l /\ work'[p] = Fresh /\ key'[p] = key[p] /\ req' = req
  BY <1>0, <1>1, StepsTypes
<1>3. Relies(p)'
  BY <1>0, <1>2 DEF Relies, Rebuilds, Idle, AtWork, Over, Building, Fresh, None, SetOf
<1>. QED BY <1>1, <1>2, <1>3

(* The work that ended forgets what it knew.                               *)
LEMMA EndsQuietly ==
    ASSUME PublicationInv, NEW p \in Process, pc[p] \notin Idle, NEW l \in Over, NEW w,
           Moves(p, l, w), UNCHANGED <<genVars, storeVars, jobVars, lost, stalls, req, key>>,
           l = "succeeded" /\ Alone =>
              \E g \in Generation : gstate[g] = "published" /\ chunkSet[g] = SetOf(key[p])
    PROVE  PublicationInv'
<1>1. /\ Steps(p, l, Fresh, key[p]) /\ l \in Label /\ Fresh \in Work
      /\ key[p] \in Key \cup {NoKey}
      /\ pc'[p] = l /\ work'[p] = Fresh /\ key'[p] = key[p] /\ Relies(p)'
  BY EndsIn DEF jobVars
<1>2. SetOf(key[p])' = SetOf(key[p])
  BY <1>1 DEF SetOf, jobVars
<1>3. Alone => Owns(p)'
  BY <1>1, <1>2 DEF Alone, Owns, Over, Building, Fresh, jobVars, genVars
<1>. QED BY <1>1, <1>3, QuietStep

LEMMA FailsQuietly ==
    ASSUME PublicationInv, NEW p \in Process, pc[p] \notin Idle, Fail(p),
           UNCHANGED <<genVars, storeVars, jobVars, lost, stalls, req, key>>
    PROVE  PublicationInv'
<1>1. Moves(p, "failed", work[p]) /\ "failed" \in Over
  BY DEF Fail, Goto, Over
<1>. QED BY <1>1, EndsQuietly

-----------------------------------------------------------------------------
(* The steps that only read, one lemma for each.                           *)

LEMMA RollbackKeeps ==
    ASSUME PublicationInv, NEW p \in Process, Rollback(p)
    PROVE  PublicationInv'
<1>1. PubTypes /\ Relies(p) /\ pc[p] = "rollback" /\ pc[p] \notin Idle
      /\ UNCHANGED <<genVars, storeVars, jobVars, lost, stalls, req, key>>
  BY DEF PublicationInv, Rollback, Idle, histVars
<1>2. SawPublished(p) \in Work /\ "check" \in Label \ Over
  BY SawIs DEF Label, Over
<1>3. /\ Steps(p, "check", SawPublished(p), key[p]) /\ key[p] \in Key \cup {NoKey}
      /\ pc'[p] = "check" /\ work'[p] = SawPublished(p) /\ key'[p] = key[p] /\ req' = req
  BY <1>1, <1>2, MovesTo DEF Rollback
<1>4. Relies(p)'
  BY <1>1, <1>3, SawIs DEF Relies, Rebuilds, AtWork, Label, Idle, Over, Choosing, Building,
     IsOf, Written, Present, Sound, SetOf, genVars, storeVars, jobVars
<1>5. Alone => Owns(p)'
  BY <1>1, <1>3, SawIs, PublishedIs DEF PublicationInv, GenerationsKept, Alone, Owns,
     Label, Idle, Over, Building, genVars, storeVars, jobVars
<1>. QED BY <1>1, <1>2, <1>3, <1>4, <1>5, QuietStep

LEMMA ExistsKeeps ==
    ASSUME PublicationInv, NEW p \in Process, Exists(p)
    PROVE  PublicationInv'
<1>1. PubTypes /\ Relies(p) /\ pc[p] = "exists" /\ pc[p] \notin Idle
      /\ UNCHANGED <<genVars, storeVars, jobVars, lost, stalls, req, key>>
  BY DEF PublicationInv, Exists, Idle, histVars
<1>2. PICK l \in Over : Moves(p, l, work[p])
  BY DEF Exists, Goto, Over
<1>3. Alone => \E g \in Generation : gstate[g] = "published" /\ chunkSet[g] = SetOf(key[p])
  BY <1>1 DEF Alone, Owns, Relies, AtWork, Label, Idle, Over, Choosing, IsOf
<1>. QED BY <1>1, <1>2, <1>3, EndsQuietly

LEMMA CheckKeeps ==
    ASSUME PublicationInv, NEW p \in Process, Check(p)
    PROVE  PublicationInv'
<1>1. PubTypes /\ Relies(p) /\ pc[p] = "check" /\ pc[p] \notin Idle
      /\ UNCHANGED <<genVars, storeVars, jobVars, lost, stalls, req, key>>
  BY DEF PublicationInv, Check, Idle, histVars
<1>2. PICK l \in {"fail", "ready", "recheck", "switch"} :
         /\ Moves(p, l, work[p])
         /\ l = "fail" <=> ~Passes(work[p].gen)
         /\ l = "ready" => work[p].step = "Build"
         /\ l \in {"recheck", "switch"} => work[p].step # "Build"
  BY DEF Check, Goto
<1>3. l \in Label \ Over /\ work[p] \in Work
  BY <1>1, <1>2 DEF Label, Over, PubTypes
<1>4. /\ Steps(p, l, work[p], key[p]) /\ key[p] \in Key \cup {NoKey}
      /\ pc'[p] = l /\ work'[p] = work[p] /\ key'[p] = key[p] /\ req' = req
  BY <1>1, <1>2, <1>3, MovesTo
<1>5. Relies(p)'
  BY <1>1, <1>2, <1>4 DEF Relies, Rebuilds, AtWork, Label, Idle, Over, Choosing, Building,
     IsOf, Written, Present, Sound, Passes, SetOf, genVars, storeVars, jobVars
<1>6. Alone => Owns(p)'
  BY <1>1, <1>2, <1>4 DEF Relies, Alone, Owns, Passes, Firm,
     Label, Idle, Over, Building, genVars, storeVars, jobVars
<1>. QED BY <1>1, <1>3, <1>4, <1>5, <1>6, QuietStep

LEMMA LoadKeeps ==
    ASSUME PublicationInv, NEW p \in Process, Load(p)
    PROVE  PublicationInv'
<1>1. PubTypes /\ Relies(p) /\ pc[p] = "load" /\ pc[p] \notin Idle
      /\ UNCHANGED <<genVars, storeVars, jobVars, lost, stalls, req, key>>
  BY DEF PublicationInv, Load, Idle, histVars
<1>2. CASE Moves(p, "failed", SawPublished(p))
  BY <1>1, <1>2, EndsQuietly DEF Over
<1>3. ASSUME NEW l \in {"alias"},
             Moves(p, l, SawPublished(p))
      PROVE  PublicationInv'
  <2>1. l \in Label \ Over /\ SawPublished(p) \in Work
    BY <1>1, <1>3, SawIs DEF Label, Over, PubTypes
  <2>2. /\ Steps(p, l, SawPublished(p), key[p]) /\ key[p] \in Key \cup {NoKey}
        /\ pc'[p] = l /\ work'[p] = SawPublished(p) /\ key'[p] = key[p] /\ req' = req
    BY <1>1, <1>3, <2>1, MovesTo
  <2>3. Relies(p)'
    BY SMTT(30), <1>1, <1>3, <2>2, SawIs DEF Relies, Rebuilds, AtWork, Label, Idle, Over, Choosing, Building,
     IsOf, Written, Present, Sound, Passes, SetOf, genVars, storeVars, jobVars
  <2>4. Alone => Owns(p)'
    BY <1>1, <1>3, <2>2, SawIs, PublishedIs DEF PublicationInv, GenerationsKept, Relies, Alone, Owns, Passes, Firm, StepOf,
     Label, Idle, Over, Building, AtWork, Choosing, IsOf, genVars, storeVars, jobVars
  <2>. QED BY <1>1, <2>1, <2>2, <2>3, <2>4, QuietStep
<1>. QED BY <1>2, <1>3 DEF Load, Goto

LEMMA CheckAliasKeeps ==
    ASSUME PublicationInv, NEW p \in Process, CheckAlias(p)
    PROVE  PublicationInv'
<1>1. PubTypes /\ Relies(p) /\ pc[p] = "alias" /\ pc[p] \notin Idle
      /\ UNCHANGED <<genVars, storeVars, jobVars, lost, stalls, req, key>>
  BY DEF PublicationInv, CheckAlias, Idle, histVars
<1>2. CASE Moves(p, "failed", work[p])
  BY <1>1, <1>2, EndsQuietly DEF Over
<1>3. ASSUME NEW l \in {"target"},
             Moves(p, l, work[p])
      PROVE  PublicationInv'
  <2>1. l \in Label \ Over /\ work[p] \in Work
    BY <1>1, <1>3 DEF Label, Over, PubTypes
  <2>2. /\ Steps(p, l, work[p], key[p]) /\ key[p] \in Key \cup {NoKey}
        /\ pc'[p] = l /\ work'[p] = work[p] /\ key'[p] = key[p] /\ req' = req
    BY <1>1, <1>3, <2>1, MovesTo
  <2>3. Relies(p)'
    BY <1>1, <1>3, <2>2 DEF Relies, Rebuilds, AtWork, Label, Idle, Over, Choosing, Building,
     IsOf, Written, Present, Sound, Passes, SetOf, genVars, storeVars, jobVars
  <2>4. Alone => Owns(p)'
    BY <1>1, <1>3, <2>2 DEF Relies, Alone, Owns, Passes, Firm, StepOf,
     Label, Idle, Over, Building, AtWork, Choosing, IsOf, genVars, storeVars, jobVars
  <2>. QED BY <1>1, <2>1, <2>2, <2>3, <2>4, QuietStep
<1>. QED BY <1>2, <1>3 DEF CheckAlias, Goto

LEMMA ProfileKeeps ==
    ASSUME PublicationInv, NEW p \in Process, Profile(p)
    PROVE  PublicationInv'
<1>1. PubTypes /\ Relies(p) /\ pc[p] = "profile" /\ pc[p] \notin Idle
      /\ UNCHANGED <<genVars, storeVars, jobVars, lost, stalls, req, key>>
  BY DEF PublicationInv, Profile, Idle, histVars
<1>0. work[p].step \in {"Build", "Check", "Done"}
  BY <1>1 DEF PubTypes, Work, Relies, AtWork, Label, Idle, Over, Choosing
<1>2. CASE Moves(p, "failed", work[p])
  BY <1>1, <1>2, EndsQuietly DEF Over
<1>3. ASSUME NEW l \in {"reconcile", "begin"},
             Moves(p, l, work[p]),
             l = "begin" => work[p].step # "Done",
             l = "reconcile" => work[p].step = "Done" /\ work[p].was = work[p].gen
      PROVE  PublicationInv'
  <2>1. l \in Label \ Over /\ work[p] \in Work
    BY <1>1, <1>3 DEF Label, Over, PubTypes
  <2>2. /\ Steps(p, l, work[p], key[p]) /\ key[p] \in Key \cup {NoKey}
        /\ pc'[p] = l /\ work'[p] = work[p] /\ key'[p] = key[p] /\ req' = req
    BY <1>1, <1>3, <2>1, MovesTo
  <2>3. Relies(p)'
    BY <1>0, <1>1, <1>3, <2>2 DEF Relies, Rebuilds, AtWork, Label, Idle, Over, Choosing, Building,
     IsOf, Written, Present, Sound, Passes, SetOf, genVars, storeVars, jobVars
  <2>4. Alone => Owns(p)'
    BY <1>0, <1>1, <1>3, <2>2 DEF Relies, Alone, Owns, Passes, Firm, StepOf,
     Label, Idle, Over, Building, AtWork, Choosing, IsOf, genVars, storeVars, jobVars
  <2>. QED BY <1>1, <2>1, <2>2, <2>3, <2>4, QuietStep
<1>. QED BY <1>2, <1>3 DEF Profile, Goto

LEMMA ReconcileKeeps ==
    ASSUME PublicationInv, NEW p \in Process, Reconcile(p)
    PROVE  PublicationInv'
<1>1. PubTypes /\ Relies(p) /\ pc[p] = "reconcile" /\ pc[p] \notin Idle
      /\ UNCHANGED <<genVars, storeVars, jobVars, lost, stalls, req, key>>
  BY DEF PublicationInv, Reconcile, Idle, histVars
<1>2. CASE Moves(p, "failed", work[p])
  BY <1>1, <1>2, EndsQuietly DEF Over
<1>3. ASSUME NEW l \in {"realign"},
             Moves(p, l, work[p])
      PROVE  PublicationInv'
  <2>1. l \in Label \ Over /\ work[p] \in Work
    BY <1>1, <1>3 DEF Label, Over, PubTypes
  <2>2. /\ Steps(p, l, work[p], key[p]) /\ key[p] \in Key \cup {NoKey}
        /\ pc'[p] = l /\ work'[p] = work[p] /\ key'[p] = key[p] /\ req' = req
    BY <1>1, <1>3, <2>1, MovesTo
  <2>3. Relies(p)'
    BY <1>1, <1>3, <2>2 DEF Relies, Rebuilds, AtWork, Label, Idle, Over, Choosing, Building,
     IsOf, Written, Present, Sound, Passes, SetOf, genVars, storeVars, jobVars
  <2>4. Alone => Owns(p)'
    BY <1>1, <1>3, <2>2 DEF Relies, Alone, Owns, Passes, Firm, StepOf,
     Label, Idle, Over, Building, AtWork, Choosing, IsOf, genVars, storeVars, jobVars
  <2>. QED BY <1>1, <2>1, <2>2, <2>3, <2>4, QuietStep
<1>. QED BY <1>2, <1>3 DEF Reconcile, Goto

LEMMA RecheckKeeps ==
    ASSUME PublicationInv, NEW p \in Process, Recheck(p)
    PROVE  PublicationInv'
<1>1. PubTypes /\ Relies(p) /\ pc[p] = "recheck" /\ pc[p] \notin Idle
      /\ UNCHANGED <<genVars, storeVars, jobVars, lost, stalls, req, key>>
  BY DEF PublicationInv, Recheck, Idle, histVars
<1>2. CASE Moves(p, "failed", work[p])
  BY <1>1, <1>2, EndsQuietly DEF Over
<1>3. ASSUME NEW l \in {"switch"},
             Moves(p, l, work[p])
      PROVE  PublicationInv'
  <2>1. l \in Label \ Over /\ work[p] \in Work
    BY <1>1, <1>3 DEF Label, Over, PubTypes
  <2>2. /\ Steps(p, l, work[p], key[p]) /\ key[p] \in Key \cup {NoKey}
        /\ pc'[p] = l /\ work'[p] = work[p] /\ key'[p] = key[p] /\ req' = req
    BY <1>1, <1>3, <2>1, MovesTo
  <2>3. Relies(p)'
    BY <1>1, <1>3, <2>2 DEF Relies, Rebuilds, AtWork, Label, Idle, Over, Choosing, Building,
     IsOf, Written, Present, Sound, Passes, SetOf, genVars, storeVars, jobVars
  <2>4. Alone => Owns(p)'
    BY <1>1, <1>3, <2>2 DEF Relies, Alone, Owns, Passes, Firm, StepOf,
     Label, Idle, Over, Building, AtWork, Choosing, IsOf, genVars, storeVars, jobVars
  <2>. QED BY <1>1, <2>1, <2>2, <2>3, <2>4, QuietStep
<1>. QED BY <1>2, <1>3 DEF Recheck, Goto

LEMMA ConfirmKeeps ==
    ASSUME PublicationInv, NEW p \in Process, Confirm(p)
    PROVE  PublicationInv'
<1>1. PubTypes /\ Relies(p) /\ pc[p] = "confirm" /\ pc[p] \notin Idle
      /\ UNCHANGED <<genVars, storeVars, jobVars, lost, stalls, req, key>>
  BY DEF PublicationInv, Confirm, Idle, histVars
<1>2. CASE Moves(p, "failed", work[p])
  BY <1>1, <1>2, EndsQuietly DEF Over
<1>3. ASSUME NEW l \in {"publish"},
             Moves(p, l, work[p])
      PROVE  PublicationInv'
  <2>1. l \in Label \ Over /\ work[p] \in Work
    BY <1>1, <1>3 DEF Label, Over, PubTypes
  <2>2. /\ Steps(p, l, work[p], key[p]) /\ key[p] \in Key \cup {NoKey}
        /\ pc'[p] = l /\ work'[p] = work[p] /\ key'[p] = key[p] /\ req' = req
    BY <1>1, <1>3, <2>1, MovesTo
  <2>3. Relies(p)'
    BY <1>1, <1>3, <2>2 DEF Relies, Rebuilds, AtWork, Label, Idle, Over, Choosing, Building,
     IsOf, Written, Present, Sound, Passes, SetOf, genVars, storeVars, jobVars
  <2>4. Alone => Owns(p)'
    BY <1>1, <1>3, <2>2 DEF Relies, Alone, Owns, Passes, Firm, StepOf,
     Label, Idle, Over, Building, AtWork, Choosing, IsOf, genVars, storeVars, jobVars
  <2>. QED BY <1>1, <2>1, <2>2, <2>3, <2>4, QuietStep
<1>. QED BY <1>2, <1>3 DEF Confirm, Goto

-----------------------------------------------------------------------------
(* The steps that choose a generation.                                     *)

LEMMA LastIsOne ==
    ASSUME NEW S \in SUBSET Generation, S # {}
    PROVE  Max(S) \in S
<1> DEFINE T == {MaxGeneration - i : i \in S}
<1>0. MaxGeneration \in Nat
  BY GenerationsAssumption
<1>1. T \subseteq Nat /\ T # {}
  <2>1. \A i \in S : i \in Int /\ i <= MaxGeneration /\ MaxGeneration - i \in Nat
    BY <1>0 DEF Generation
  <2> QED
    BY <2>1
<1>2. PICK t \in T : \A u \in T : ~ (<<u, t>> \in OpToRel(<, Nat))
  BY <1>1, NatLessThanWellFounded, WFMin
<1>3. \A u \in T : ~ (u < t)
  BY <1>1, <1>2 DEF OpToRel
<1>4. PICK i \in S : t = MaxGeneration - i
  OBVIOUS
<1>5. ASSUME NEW j \in S PROVE i >= j
  <2>1. ~ (MaxGeneration - j < MaxGeneration - i)
    BY <1>3, <1>4
  <2> QED
    BY <1>0, <2>1 DEF Generation
<1> QED
  BY <1>5 DEF Max

(* A generation taken up where its state says it was left. *)
LEMMA ChoosesKeeps ==
    ASSUME PublicationInv, NEW p \in Process, pc[p] \in {"select", "target"},
           UNCHANGED <<genVars, storeVars, jobVars, lost, stalls, req, key>>,
           NEW g \in Generation, IsOf(g, req[p].set), NEW st, st = StepOf(gstate[g]), st # "Over",
           NEW l \in {"begin", "rollback", "exists", "initial", "profile"},
           l = "begin" => st = "Build", l = "rollback" => st = "Check", l = "exists" => st = "Done",
           Moves(p, l, Chosen(p, g, st))
    PROVE  PublicationInv'
<1>1. PubTypes /\ Relies(p) /\ pc[p] \notin Idle /\ work[p] \in Work
  BY DEF PublicationInv, Idle, PubTypes
<1>2. st \in {"Build", "Check", "Done"} /\ (st = "Build" <=> gstate[g] = "building")
      /\ (st = "Check" <=> gstate[g] = "verified") /\ (st = "Done" <=> gstate[g] = "published")
  BY DEF StepOf
<1>3. l \in Label \ Over /\ Chosen(p, g, st) \in Work
      /\ Chosen(p, g, st).gen = g /\ Chosen(p, g, st).step = st
      /\ Chosen(p, g, st).resume = work[p].resume /\ Chosen(p, g, st).was = work[p].was
  BY <1>1, <1>2 DEF Label, Over, Chosen, Work
<1>4. /\ Steps(p, l, Chosen(p, g, st), key[p]) /\ key[p] \in Key \cup {NoKey}
      /\ pc'[p] = l /\ work'[p] = Chosen(p, g, st) /\ key'[p] = key[p] /\ req' = req
  BY <1>1, <1>3, MovesTo
<1>5. st = "Check" => Sound(g)
  BY <1>2 DEF PublicationInv, GenerationsKept
<1>6. Relies(p)'
  BY SMTT(30), <1>1, <1>2, <1>3, <1>4, <1>5 DEF Relies, Rebuilds, AtWork, Label, Idle, Over, Choosing,
     Building, IsOf, Written, Present, Sound, SetOf, genVars, storeVars, jobVars
<1>7. Alone => Owns(p)'
  BY <1>1, <1>2, <1>3, <1>4 DEF Alone, Owns, StepOf, Label, Idle, Over, Building,
     genVars, storeVars, jobVars
<1>. QED BY <1>1, <1>3, <1>4, <1>6, <1>7, QuietStep

(* None is taken up: a new one is created next. *)
LEMMA CreatesNext ==
    ASSUME PublicationInv, NEW p \in Process, pc[p] \in {"select", "target"},
           UNCHANGED <<genVars, storeVars, jobVars, lost, stalls, req, key>>, Goto(p, "create")
    PROVE  PublicationInv'
<1>1. PubTypes /\ Relies(p) /\ pc[p] \notin Idle /\ work[p] \in Work /\ "create" \in Label \ Over
  BY DEF PublicationInv, Idle, PubTypes, Label, Over
<1>2. /\ Steps(p, "create", work[p], key[p]) /\ key[p] \in Key \cup {NoKey}
      /\ pc'[p] = "create" /\ work'[p] = work[p] /\ key'[p] = key[p] /\ req' = req
  BY <1>1, MovesTo DEF Goto
<1>3. Relies(p)'
  BY <1>1, <1>2 DEF Relies, Rebuilds, AtWork, Label, Idle, Over, Choosing, Building,
     IsOf, Written, SetOf, genVars, storeVars, jobVars
<1>4. Alone => Owns(p)'
  BY <1>1, <1>2 DEF Alone, Owns, Label, Idle, Over, Building, genVars, storeVars, jobVars
<1>. QED BY <1>1, <1>2, <1>3, <1>4, QuietStep

LEMMA SelectKeeps ==
    ASSUME PublicationInv, NEW p \in Process, Select(p)
    PROVE  PublicationInv'
<1> DEFINE found == Reusable(req[p].set)
           g == Max(found)
<1>1. pc[p] \in {"select", "target"}
      /\ UNCHANGED <<genVars, storeVars, jobVars, lost, stalls, req, key>>
  BY DEF Select, histVars
<1>2. CASE found = {}
  BY <1>1, <1>2, CreatesNext DEF Select
<1>3. CASE found # {}
  <2>1. g \in found
    BY <1>3, LastIsOne DEF Reusable, Recorded
  <2>2. g \in Generation /\ IsOf(g, req[p].set) /\ StepOf(gstate[g]) # "Over"
    BY <2>1 DEF Reusable, Recorded, IsOf
  <2>3. Moves(p, CASE StepOf(gstate[g]) = "Build" -> "begin"
                   [] StepOf(gstate[g]) = "Check" -> "rollback"
                   [] OTHER -> "exists",
              Chosen(p, g, StepOf(gstate[g])))
    BY <1>3 DEF Select
  <2> HIDE DEF g
  <2>4. PICK l \in {"begin", "rollback", "exists"} :
           /\ Moves(p, l, Chosen(p, g, StepOf(gstate[g])))
           /\ l = "begin" => StepOf(gstate[g]) = "Build"
           /\ l = "rollback" => StepOf(gstate[g]) = "Check"
           /\ l = "exists" => StepOf(gstate[g]) = "Done"
    BY <2>2, <2>3 DEF StepOf
  <2>. QED BY <1>1, <2>2, <2>4, ChoosesKeeps
<1>. QED BY <1>2, <1>3

LEMMA TargetKeeps ==
    ASSUME PublicationInv, NEW p \in Process, Target(p)
    PROVE  PublicationInv'
<1>1. pc[p] \in {"select", "target"} /\ pc[p] \notin Idle /\ Relies(p)
      /\ UNCHANGED <<genVars, storeVars, jobVars, lost, stalls, req, key>>
  BY DEF Target, histVars, Idle, PublicationInv
<1>2. CASE work[p].resume.generation # 0
  <2> DEFINE g == work[p].resume.generation
  <2>1. g \in Generation /\ IsOf(g, req[p].set)
    BY <1>1, <1>2 DEF Relies, IsOf
  <2>2. Moves(p, IF StepOf(gstate[g]) = "Over" THEN "failed" ELSE "profile",
              Chosen(p, g, StepOf(gstate[g])))
    BY <1>2 DEF Target
  <2> HIDE DEF g
  <2>3. CASE StepOf(gstate[g]) = "Over"
    BY <1>1, <2>2, <2>3, EndsQuietly DEF Over
  <2>4. CASE StepOf(gstate[g]) # "Over"
    BY <1>1, <2>1, <2>2, <2>4, ChoosesKeeps
  <2>. QED BY <2>3, <2>4
<1>3. CASE Goto(p, "create")
  BY <1>1, <1>3, CreatesNext
<1>4. CASE Fail(p)
  BY <1>1, <1>4, FailsQuietly
<1>5. ASSUME NEW g \in Unfinished(p), Moves(p, "initial", Chosen(p, g, StepOf(gstate[g])))
      PROVE  PublicationInv'
  <2>1. g \in Generation /\ IsOf(g, req[p].set) /\ StepOf(gstate[g]) # "Over"
    BY DEF Unfinished, Recorded, IsOf
  <2>. QED BY <1>1, <1>5, <2>1, ChoosesKeeps
<1>. QED BY <1>2, <1>3, <1>4, <1>5 DEF Target

-----------------------------------------------------------------------------
(* The steps that move the alias.                                          *)

LEMMA AliasStep ==
    ASSUME PublicationInv, NEW p \in Process, pc[p] \notin Idle,
           NEW l \in Label, NEW w \in Work, Steps(p, l, w, key[p]),
           alias' \in Generation \cup {0},
           UNCHANGED <<genVars, held, points, jobVars, lost, stalls>>,
           Relies(p)',
           Alone => Owns(p)' /\ (alias' # 0 => gstate[alias'] # "retired")
    PROVE  PublicationInv'
<1>1. PubTypes /\ key[p] \in Key \cup {NoKey}
  BY DEF PublicationInv, PubTypes
<1>2. PubTypes'
  BY <1>1, StepsTypes DEF PubTypes, jobVars
<1>3. IInv'
  BY NextIInv DEF PublicationInv
<1>4. Lasting /\ GenerationsKept' /\ ProgressKept'
  BY DEF PublicationInv, Lasting, GenerationsKept, ProgressKept, Sound, Written, SetOf, IsOf,
     genVars, jobVars
<1>5. Alone => AliasNeverBehind' /\ \A g \in Generation : gstate'[g] = "published" => Firm(g)'
  BY DEF Alone, AliasNeverBehind, Firm, genVars
<1>. QED BY <1>1, <1>2, <1>3, <1>4, <1>5, OwnerStep

LEMMA RestoreKeeps ==
    ASSUME PublicationInv, NEW p \in Process, Restore(p)
    PROVE  PublicationInv'
<1>1. PubTypes /\ pc[p] = "restore" /\ pc[p] \notin Idle /\ "failed" \in Over
      /\ Moves(p, "failed", work[p])
      /\ UNCHANGED <<genVars, held, points, jobVars, lost, stalls, req, key>>
  BY DEF PublicationInv, Restore, Idle, Over, histVars, Fail, Goto
<1>0. 0 \notin Generation
  BY DEF Generation
<1>2. alias' \in Generation \cup {0} /\ held \subseteq Generation
  BY <1>1 DEF PubTypes, Restore
<1>3. /\ Steps(p, "failed", Fresh, key[p]) /\ "failed" \in Label /\ Fresh \in Work
      /\ pc'[p] = "failed" /\ work'[p] = Fresh /\ Relies(p)'
  BY <1>1, EndsIn DEF jobVars
<1>4. Alone => Owns(p)'
  BY <1>1, <1>3 DEF Alone, Owns, Over, Building, Fresh, jobVars
<1>5. Alone => (alias' # 0 => gstate[alias'] # "retired")
  BY <1>0, <1>1, <1>2 DEF Alone, Owns, AliasNeverBehind, Restore, Label, Idle, Over
<1>. QED BY <1>1, <1>2, <1>3, <1>4, <1>5, AliasStep

LEMMA SwitchKeeps ==
    ASSUME PublicationInv, NEW p \in Process, Switch(p)
    PROVE  PublicationInv'
<1>1. PubTypes /\ Relies(p) /\ pc[p] = "switch" /\ pc[p] \notin Idle /\ work[p] \in Work
      /\ UNCHANGED <<genVars, held, points, jobVars, lost, stalls, req, key>>
  BY DEF PublicationInv, Switch, Idle, histVars, PubTypes
<1>2. CASE work[p].gen \notin held
  BY <1>1, <1>2, FailsQuietly DEF Switch, storeVars
<1>3. CASE work[p].gen \in held
  <2>1. PICK l \in {"confirm", "publish"} : Moves(p, l, work[p])
    BY <1>3 DEF Switch, Goto
  <2>2. alias' = work[p].gen /\ alias' \in Generation \cup {0} /\ l \in Label \ Over
    BY <1>1, <1>3 DEF Switch, PubTypes, Label, Over
  <2>3. /\ Steps(p, l, work[p], key[p])
        /\ pc'[p] = l /\ work'[p] = work[p] /\ key'[p] = key[p] /\ req' = req
    BY <1>1, <2>1, <2>2, MovesTo
  <2>4. Relies(p)'
    BY <1>1, <2>3 DEF Relies, Rebuilds, AtWork, Label, Idle, Over, Choosing, Building,
       IsOf, Written, Present, Sound, SetOf, genVars, jobVars
  <2>5. Alone => Owns(p)'
    BY <1>1, <2>2, <2>3 DEF Alone, Owns, Firm, Label, Idle, Over, Building, genVars, jobVars
  <2>6. Alone => gstate[alias'] # "retired"
    BY <1>1, <2>2 DEF Alone, Owns
  <2>. QED BY <1>1, <2>2, <2>3, <2>4, <2>5, <2>6, AliasStep
<1>. QED BY <1>2, <1>3

LEMMA RealignKeeps ==
    ASSUME PublicationInv, NEW p \in Process, Realign(p)
    PROVE  PublicationInv'
<1>1. PubTypes /\ Relies(p) /\ pc[p] = "realign" /\ pc[p] \notin Idle
      /\ UNCHANGED <<genVars, held, points, jobVars, lost, stalls, req, key>>
  BY DEF PublicationInv, Realign, Idle, histVars
<1>2. IsOf(work[p].gen, req[p].set) /\ SetOf(key[p]) = req[p].set /\ 0 \notin Generation
  BY <1>1 DEF Relies, AtWork, Label, Idle, Over, Choosing, Generation
<1>3. Alone => owner = p /\ gstate[work[p].gen] = "published"
  BY <1>1, <1>2 DEF Alone, Owns, Label, Idle, Over, IsOf
<1>4. CASE Fail(p) /\ UNCHANGED alias
  BY <1>1, <1>4, FailsQuietly DEF storeVars
<1>5. CASE Goto(p, "succeeded") /\ alias' = work[p].gen
  <2>1. "succeeded" \in Over /\ Moves(p, "succeeded", work[p])
    BY <1>5 DEF Over, Goto
  <2>2. /\ Steps(p, "succeeded", Fresh, key[p]) /\ "succeeded" \in Label /\ Fresh \in Work
        /\ pc'[p] = "succeeded" /\ work'[p] = Fresh /\ key'[p] = key[p] /\ Relies(p)'
    BY <1>1, <2>1, EndsIn DEF jobVars
  <2>3. SetOf(key[p])' = SetOf(key[p])
    BY <1>1, <2>2 DEF SetOf, jobVars
  <2>4. Alone => Owns(p)'
    <3>1. SUFFICES ASSUME Alone PROVE Owns(p)'
      OBVIOUS
    <3>2. \E g \in Generation : gstate'[g] = "published" /\ chunkSet'[g] = SetOf(key[p])'
      BY <1>2, <1>3, <2>3, <3>1, <1>1 DEF IsOf, genVars
    <3>. QED BY <1>1, <1>3, <2>2, <3>1, <3>2 DEF Owns, Over, Building, Fresh, jobVars
  <2>5. Alone => (alias' # 0 => gstate[alias'] # "retired")
    BY <1>3, <1>5
  <2>. QED BY <1>1, <1>2, <1>5, <2>2, <2>4, <2>5, AliasStep DEF IsOf
<1>. QED BY <1>4, <1>5 DEF Realign

-----------------------------------------------------------------------------
(* The steps of the build.                                                 *)

(* The lease's owner journals what it has written, n chunks of it. *)
LEMMA JournalsKeeps ==
    ASSUME PublicationInv, NEW p \in Process, pc[p] \in {"journal", "initial"},
           NEW n \in 0..Chunks, Written(work[p].gen, n),
           NEW l \in {"upsert", "profile"}, pc[p] = "initial" <=> l = "profile",
           progress' = [progress EXCEPT ![key[p]] = [generation |-> work[p].gen, indexed |-> n]],
           Goto(p, l),
           UNCHANGED <<genVars, storeVars, owner, job, guard, lost, stalls, req, key>>
    PROVE  PublicationInv'
<1>1. PubTypes /\ Relies(p) /\ pc[p] \notin Idle /\ work[p] \in Work /\ l \in Label \ Over
  BY DEF PublicationInv, Idle, PubTypes, Label, Over
<1>2. /\ Steps(p, l, work[p], key[p]) /\ key[p] \in Key \cup {NoKey}
      /\ pc'[p] = l /\ work'[p] = work[p] /\ key'[p] = key[p] /\ req' = req
  BY <1>1, MovesTo DEF Goto
<1>3. /\ key[p] \in Key /\ SetOf(key[p]) = req[p].set /\ IsOf(work[p].gen, req[p].set)
      /\ req[p].set \in ChunkSet /\ req[p].set # NoKey
  BY <1>1, NamesAreNew DEF Relies, AtWork, Label, Idle, Over, Choosing, PubTypes, Request, Key
<1>4. PubTypes'
  <2>1. [generation |-> work[p].gen, indexed |-> n] \in Progress
    BY <1>3 DEF Progress, IsOf
  <2>2. progress' \in [Key -> Progress]
    BY <1>1, <2>1 DEF PubTypes
  <2>. QED BY <1>1, <1>2, <2>2, StepsTypes DEF PubTypes, storeVars
<1>5. Lasting /\ GenerationsKept'
  BY DEF PublicationInv, Lasting, GenerationsKept, Sound, SetOf, genVars, storeVars
<1>6. IInv'
  BY NextIInv DEF PublicationInv
<1>7. ProgressKept'
  <2> SUFFICES ASSUME NEW k \in Key
               PROVE  (/\ progress[k].generation # 0 =>
                             /\ IsOf(progress[k].generation, SetOf(k))
                             /\ Written(progress[k].generation, progress[k].indexed)
                       /\ k \in Again /\ guard[k].set = NoKey => progress[k].generation = 0)'
    BY DEF ProgressKept
  <2>1. CASE k = key[p]
    <3>1. progress'[k].generation = work[p].gen /\ progress'[k].indexed = n
      BY <1>1, <1>3, <2>1 DEF PubTypes
    <3>2. k \in Again => guard[k].set # NoKey
      BY <1>3, <2>1 DEF SetOf
    <3>. QED BY <1>3, <2>1, <3>1, <3>2 DEF IsOf, Written, SetOf, genVars, storeVars
  <2>2. CASE k # key[p]
    <3>1. progress'[k] = progress[k]
      BY <1>1, <2>2 DEF PubTypes
    <3>. QED BY <3>1 DEF PublicationInv, ProgressKept, IsOf, Written, SetOf, genVars, storeVars
  <2>. QED BY <2>1, <2>2
<1>8. Relies(p)'
  BY <1>1, <1>2 DEF Relies, Rebuilds, AtWork, Label, Idle, Over, Choosing, Building,
     IsOf, Written, Present, Sound, SetOf, genVars, storeVars
<1>9. Alone => /\ Owns(p)' /\ AliasNeverBehind'
               /\ \A g \in Generation : gstate'[g] = "published" => Firm(g)'
  BY <1>1, <1>2 DEF Alone, Owns, AliasNeverBehind, Firm, Label, Idle, Over, Building,
     genVars, storeVars
<1>. QED BY <1>1, <1>2, <1>4, <1>5, <1>6, <1>7, <1>8, <1>9, OwnerStep

LEMMA JournalKeeps ==
    ASSUME PublicationInv, NEW p \in Process, Journal(p)
    PROVE  PublicationInv'
<1>1. PubTypes /\ Relies(p) /\ pc[p] = "journal" /\ pc[p] \notin Idle
      /\ UNCHANGED <<genVars, storeVars, owner, job, guard, lost, stalls, req, key>>
  BY DEF PublicationInv, Journal, Idle, histVars
<1>2. CASE IsOwner(p)
  <2>1. work[p].indexed \in 0..Chunks /\ Written(work[p].gen, work[p].indexed)
    BY <1>1 DEF PubTypes, Work, Relies
  <2>. QED BY <1>1, <1>2, <2>1, JournalsKeeps DEF Journal, Journaled
<1>3. CASE ~IsOwner(p)
  BY <1>1, <1>3, FailsQuietly DEF Journal, jobVars
<1>. QED BY <1>2, <1>3

LEMMA InitialKeeps ==
    ASSUME PublicationInv, NEW p \in Process, Initial(p)
    PROVE  PublicationInv'
<1>1. pc[p] = "initial" /\ pc[p] \notin Idle
      /\ UNCHANGED <<genVars, storeVars, owner, job, guard, lost, stalls, req, key>>
  BY DEF Initial, Idle, histVars
<1>2. CASE IsOwner(p)
  <2>1. 0 \in 0..Chunks /\ Written(work[p].gen, 0)
    BY PublicationAssumption DEF Written
  <2>. QED BY <1>1, <1>2, <2>1, JournalsKeeps DEF Initial
<1>3. CASE ~IsOwner(p)
  BY <1>1, <1>3, FailsQuietly DEF Initial, jobVars
<1>. QED BY <1>2, <1>3

(* Points written in the collections, and collections created. *)
LEMMA WritesStep ==
    ASSUME PublicationInv, NEW p \in Process, pc[p] \notin Idle,
           NEW l \in Label, NEW w \in Work, Steps(p, l, w, key[p]),
           held \subseteq held', held' \subseteq Generation,
           points' \in [Generation -> SUBSET (1..Chunks)],
           \A g \in Generation : points[g] \subseteq points'[g],
           \A g \in Generation : g \notin held' => points'[g] = points[g],
           UNCHANGED <<genVars, alias, jobVars, lost, stalls>>,
           Relies(p)',
           Alone => Owns(p)' /\ \A g \in held' \ held : gstate[g] # "published"
    PROVE  PublicationInv'
<1>1. PubTypes /\ key[p] \in Key \cup {NoKey}
  BY DEF PublicationInv, PubTypes
<1>2. PubTypes'
  BY <1>1, StepsTypes DEF PubTypes, jobVars
<1>3. IInv'
  BY NextIInv DEF PublicationInv
<1>4. Lasting
  BY DEF Lasting, SetOf, genVars, jobVars
<1>5. GenerationsKept'
  <2>1. \A g \in Generation : Sound(g) => Sound(g)'
    BY <1>1, <1>2, <1>4, WrittenLasts
  <2>. QED BY <2>1 DEF PublicationInv, GenerationsKept, genVars
<1>6. ProgressKept'
  BY DEF PublicationInv, ProgressKept, Written, SetOf, IsOf, genVars, jobVars
<1>7. ASSUME Alone, NEW g \in Generation, gstate'[g] = "published"
      PROVE  Firm(g)'
  <2>1. gstate[g] = "published" /\ Firm(g) /\ (g \in held' => g \in held)
    BY <1>7 DEF Alone, genVars
  <2>2. points'[g] \subseteq 1..Chunks
    OBVIOUS
  <2>. QED BY <2>1, <2>2 DEF Firm
<1>8. Alone => AliasNeverBehind'
  BY DEF Alone, AliasNeverBehind, genVars
<1>. QED BY <1>1, <1>2, <1>3, <1>4, <1>5, <1>6, <1>7, <1>8, OwnerStep

LEMMA EnsureKeeps ==
    ASSUME PublicationInv, NEW p \in Process, Ensure(p)
    PROVE  PublicationInv'
<1> DEFINE g == work[p].gen
<1>1. PubTypes /\ Relies(p) /\ pc[p] = "ensure" /\ pc[p] \notin Idle /\ work[p] \in Work
      /\ UNCHANGED <<genVars, alias, jobVars, lost, stalls, req, key>>
  BY DEF PublicationInv, Ensure, Idle, histVars, PubTypes
<1>2. g \in Generation /\ (g \notin held => points[g] = {}) /\ 0 \in 0..Chunks
  BY <1>1, PublicationAssumption
     DEF Relies, IsOf, AtWork, Label, Idle, Over, Choosing, PublicationInv, GenerationsKept
<1>3. held' = held \cup {g} /\ points' = points
  <2>1. g \notin held => [points EXCEPT ![g] = {}] = points
    BY <1>1, <1>2 DEF PubTypes
  <2>. QED BY <2>1 DEF Ensure
<1>0. PICK w \in Work : w = IF g \in held THEN work[p] ELSE [work[p] EXCEPT !.indexed = 0]
  BY <1>1, <1>2, WorkTypes
<1>4. /\ w.gen = g /\ w.step = work[p].step /\ w.was = work[p].was
      /\ w.resume = work[p].resume /\ (g \in held => w.indexed = work[p].indexed)
      /\ (g \notin held => w.indexed = 0)
  BY <1>0, <1>1, <1>2 DEF Work
<1>5. PICK l \in {"upsert", "check"} :
         Moves(p, l, w) /\ (l = "check" => work[p].step # "Build" /\ g \in held)
  BY <1>0 DEF Ensure
<1>6. l \in Label \ Over
  BY DEF Label, Over
<1>7. /\ Steps(p, l, w, key[p])
      /\ pc'[p] = l /\ work'[p] = w /\ key'[p] = key[p] /\ req' = req
  BY <1>1, <1>4, <1>5, <1>6, MovesTo
<1>8. Written(g, w.indexed)
  <2>1. 1..0 = {}
    OBVIOUS
  <2>. QED BY <1>1, <1>4, <2>1 DEF Relies, Written
<1>9. Relies(p)'
  <2>1. Written(w.gen, w.indexed)' /\ Present(w.gen)'
    BY <1>1, <1>3, <1>4, <1>7, <1>8 DEF Written, Present
  <2>2. l = "check" => work[p].step = "Check"
    BY <1>1, <1>5 DEF Relies, Building
  <2>3. work[p].step = "Check" => Sound(w.gen)'
    BY <1>1, <1>3, <1>4, <1>7 DEF Relies, Sound, AtWork, Label, Idle, Over, Choosing
  <2>. QED BY <1>1, <1>3, <1>4, <1>7, <2>1, <2>2, <2>3
           DEF Relies, Rebuilds, AtWork, Label, Idle, Over, Choosing, Building,
               IsOf, Written, Present, Sound, SetOf, genVars, jobVars
<1>10. Alone => Owns(p)' /\ gstate[g] # "published"
  BY <1>1, <1>4, <1>7 DEF Alone, Owns, Relies, Label, Idle, Over, Building, genVars, jobVars
<1>. QED BY <1>1, <1>2, <1>3, <1>4, <1>6, <1>7, <1>9, <1>10, WritesStep DEF PubTypes

LEMMA UpsertKeeps ==
    ASSUME PublicationInv, NEW p \in Process, Upsert(p)
    PROVE  PublicationInv'
<1> DEFINE g == work[p].gen
           n == work[p].indexed
<1>1. PubTypes /\ Relies(p) /\ pc[p] = "upsert" /\ pc[p] \notin Idle /\ work[p] \in Work
      /\ UNCHANGED <<genVars, held, alias, jobVars, lost, stalls, req, key>>
  BY DEF PublicationInv, Upsert, Idle, histVars, PubTypes
<1>2. g \in Generation /\ Written(g, n) /\ Present(g) /\ n \in 0..Chunks /\ Chunks \in Nat
      /\ points[g] \subseteq 1..Chunks
  BY <1>1, PublicationAssumption
     DEF Relies, IsOf, AtWork, Label, Idle, Over, Choosing, PubTypes, Work
<1>3. CASE Fail(p) /\ UNCHANGED points
  BY <1>1, <1>3, FailsQuietly DEF storeVars
<1>4. CASE n = Chunks /\ Goto(p, "check") /\ UNCHANGED points
  <2>1. Sound(g)
    BY <1>2, <1>4 DEF Written, Present, Sound
  <2>2. "check" \in Label \ Over
    BY DEF Label, Over
  <2>3. /\ Steps(p, "check", work[p], key[p])
        /\ pc'[p] = "check" /\ work'[p] = work[p] /\ key'[p] = key[p] /\ req' = req
    BY <1>1, <1>4, <2>2, MovesTo DEF Goto
  <2>4. Relies(p)'
    BY <1>1, <1>4, <2>1, <2>3 DEF Relies, Rebuilds, AtWork, Label, Idle, Over, Choosing, Building,
       IsOf, Written, Present, Sound, SetOf, genVars, jobVars
  <2>5. Alone => Owns(p)'
    BY <1>1, <1>4, <2>3 DEF Alone, Owns, Label, Idle, Over, Building, genVars, jobVars
  <2>. QED BY <1>1, <1>4, <2>2, <2>3, <2>4, <2>5, WritesStep DEF PubTypes
<1>5. CASE n < Chunks /\ g \in held /\ points' = [points EXCEPT ![g] = @ \cup {n + 1}]
           /\ Moves(p, "journal", [work[p] EXCEPT !.indexed = n + 1])
  <2>1. n + 1 \in 1..Chunks /\ n + 1 \in 0..Chunks /\ 1..(n + 1) = 1..n \cup {n + 1}
    BY <1>2, <1>5
  <2>0. PICK w \in Work : w = [work[p] EXCEPT !.indexed = n + 1]
    BY <1>1, <2>1, WorkTypes
  <2>2. /\ w.gen = g /\ w.step = work[p].step /\ w.was = work[p].was
        /\ w.resume = work[p].resume /\ w.indexed = n + 1
    BY <1>1, <2>0, <2>1 DEF Work
  <2>3. /\ points' \in [Generation -> SUBSET (1..Chunks)] /\ points'[g] = points[g] \cup {n + 1}
        /\ \A h \in Generation : points[h] \subseteq points'[h]
        /\ \A h \in Generation : h \notin held => points'[h] = points[h]
    BY <1>1, <1>2, <1>5, <2>1 DEF PubTypes
  <2>4. "journal" \in Label \ Over
    BY DEF Label, Over
  <2>5. /\ Steps(p, "journal", w, key[p])
        /\ pc'[p] = "journal" /\ work'[p] = w /\ key'[p] = key[p] /\ req' = req
    BY <1>1, <1>5, <2>0, <2>4, MovesTo
  <2>6. Written(w.gen, w.indexed)' /\ Present(w.gen)'
    BY <1>1, <1>2, <1>5, <2>1, <2>2, <2>3, <2>5 DEF Written, Present
  <2>7. work[p].step = "Check" => Sound(w.gen)'
    <3>1. work[p].step = "Check" => Sound(g)
      BY <1>1 DEF Relies, AtWork, Label, Idle, Over, Choosing
    <3>2. points[g] = 1..Chunks => points'[g] = 1..Chunks
      BY <2>1, <2>3
    <3>. QED BY <1>1, <1>5, <2>2, <3>1, <3>2 DEF Sound
  <2>8. w.resume.generation # 0 => Written(w.resume.generation, w.resume.indexed)'
    BY <1>1, <2>2, <2>3, <2>5 DEF Relies, Written, IsOf
  <2>9. Relies(p)'
    BY <1>1, <2>2, <2>5, <2>6, <2>7, <2>8 DEF Relies, Rebuilds, AtWork, Label, Idle, Over,
       Choosing, Building, IsOf, Written, Present, Sound, SetOf, genVars, jobVars
  <2>10. Alone => Owns(p)'
    BY <1>1, <2>2, <2>5 DEF Alone, Owns, Label, Idle, Over, Building, genVars, jobVars
  <2>. QED BY <1>1, <2>2, <2>3, <2>4, <2>5, <2>9, <2>10, WritesStep DEF PubTypes
<1>. QED BY <1>3, <1>4, <1>5 DEF Upsert

-----------------------------------------------------------------------------
(* The steps that call the kernel.                                         *)

LEMMA KernelStep ==
    ASSUME PublicationInv, NEW p \in Process, pc[p] \notin Idle,
           NEW l \in Label, NEW w \in Work, Steps(p, l, w, key[p]),
           [GenNext]_genVars, UNCHANGED <<storeVars, jobVars, lost, stalls>>,
           \A g \in Generation :
              /\ collection'[g] = C
              /\ search[g] = "ready" => search'[g] = "ready"
              /\ gstate[g] # "none" => gstate'[g] # "none" /\ chunkSet'[g] = chunkSet[g]
              /\ gstate'[g] \in {"verified", "published", "retired"} =>
                    search'[g] = "ready" /\ Sound(g)
              /\ gstate'[g] = "failed" => g \in lost,
           Relies(p)',
           Alone => /\ Owns(p)' /\ AliasNeverBehind'
                    /\ \A g \in Generation : gstate'[g] = "published" => Firm(g)
    PROVE  PublicationInv'
<1>1. PubTypes /\ key[p] \in Key \cup {NoKey}
  BY DEF PublicationInv, PubTypes
<1>2. PubTypes'
  BY <1>1, StepsTypes DEF PubTypes, storeVars, jobVars
<1>3. IInv'
  BY NextIInv DEF PublicationInv
<1>4. Lasting
  BY DEF Lasting, SetOf, storeVars, jobVars
<1>5. GenerationsKept'
  BY DEF PublicationInv, GenerationsKept, Sound, storeVars
<1>6. ProgressKept'
  BY DEF PublicationInv, ProgressKept, Written, SetOf, IsOf, storeVars, jobVars
<1>7. Alone => \A g \in Generation : gstate'[g] = "published" => Firm(g)'
  BY DEF Firm, storeVars
<1>. QED BY <1>1, <1>2, <1>3, <1>4, <1>5, <1>6, <1>7, OwnerStep

(* What the call leaves to the process that made it. *)
LEMMA KernelRelies ==
    ASSUME PublicationInv, NEW p \in Process, pc[p] \notin Idle,
           NEW l \in Label, NEW w \in Work, pc'[p] = l, work'[p] = w, key'[p] = key[p],
           req' = req, UNCHANGED <<storeVars, jobVars, lost>>,
           \A g \in Generation :
              gstate[g] # "none" => gstate'[g] # "none" /\ chunkSet'[g] = chunkSet[g],
           w.resume = work[p].resume,
           l \in AtWork, IsOf(w.gen, req[p].set)', w.step # "Over",
           l # "rollback",
           l \in Building => w.step \in {"Build", "Check"},
           w.step = "Check" => Sound(w.gen),
           l = "ensure" => Written(w.gen, w.indexed),
           l \notin {"upsert", "journal", "check", "ready", "fail"},
           l = "verify" => Sound(w.gen) /\ search'[w.gen] = "ready"
    PROVE  Relies(p)'
<1>1. Relies(p)
  BY DEF PublicationInv
<1>2. w.resume.generation # 0 =>
         /\ IsOf(w.resume.generation, req[p].set)'
         /\ Written(w.resume.generation, w.resume.indexed)'
  BY <1>1 DEF Relies, IsOf, Written, storeVars
<1>. QED BY <1>1, <1>2 DEF Relies, Rebuilds, AtWork, Label, Idle, Over, Choosing, Building,
     Written, Present, Sound, SetOf, storeVars, jobVars

LEMMA CreateKeeps ==
    ASSUME PublicationInv, NEW p \in Process, Create(p)
    PROVE  PublicationInv'
<1>1. PubTypes /\ IInv /\ GenTypeOK /\ Relies(p) /\ pc[p] = "create" /\ pc[p] \notin Idle
      /\ work[p] \in Work /\ UNCHANGED <<storeVars, jobVars, lost, stalls, req, key>>
      /\ C \in Collection /\ req[p].set \in ChunkSet
  BY PublishedIs
     DEF PublicationInv, IInv, Create, Idle, histVars, PubTypes, GenerationsKept, Request
<1>2. PICK g \in Generation :
         /\ CreateGeneration(g, C, req[p].set)
         /\ Moves(p, IF Rebuilds(p) THEN "initial" ELSE "begin", Chosen(p, g, "Build"))
  BY DEF Create
<1>3. PICK l \in {"initial", "begin"} : Moves(p, l, Chosen(p, g, "Build"))
  BY <1>2
<1>4. PICK w \in Work : /\ w = Chosen(p, g, "Build") /\ w.gen = g /\ w.step = "Build"
                        /\ w.resume = work[p].resume /\ w.was = work[p].was
  <2>1. /\ Chosen(p, g, "Build") \in Work
        /\ Chosen(p, g, "Build").gen = g /\ Chosen(p, g, "Build").step = "Build"
        /\ Chosen(p, g, "Build").resume = work[p].resume /\ Chosen(p, g, "Build").was = work[p].was
    BY <1>1 DEF Chosen, Work
  <2>. QED BY <2>1
<1>5. l \in Label \ Over /\ l \in AtWork
  BY DEF Label, Over, AtWork, Idle, Choosing
<1>6. /\ Steps(p, l, w, key[p])
      /\ pc'[p] = l /\ work'[p] = w /\ key'[p] = key[p] /\ req' = req
  BY <1>1, <1>3, <1>4, <1>5, MovesTo
<1>7. /\ gstate[g] = "none" /\ gstate'[g] = "building" /\ chunkSet'[g] = req[p].set
      /\ collection'[g] = C /\ search' = search
      /\ \A h \in Generation \ {g} : /\ gstate'[h] = gstate[h] /\ chunkSet'[h] = chunkSet[h]
                                     /\ collection'[h] = collection[h]
  BY <1>1, <1>2 DEF CreateGeneration, GenTypeOK
<1>8. [GenNext]_genVars
  BY <1>1, <1>2 DEF GenNext
<1>9. \A h \in Generation :
        /\ collection'[h] = C
        /\ search[h] = "ready" => search'[h] = "ready"
        /\ gstate[h] # "none" => gstate'[h] # "none" /\ chunkSet'[h] = chunkSet[h]
        /\ gstate'[h] \in {"verified", "published", "retired"} => search'[h] = "ready" /\ Sound(h)
        /\ gstate'[h] = "failed" => h \in lost
  BY <1>7 DEF PublicationInv, GenerationsKept
<1>10. Relies(p)'
  <2>1. IsOf(w.gen, req[p].set)'
    BY <1>4, <1>6, <1>7 DEF IsOf
  <2>. QED BY <1>1, <1>4, <1>5, <1>6, <1>9, <2>1, KernelRelies DEF Building
<1>11. Alone => /\ Owns(p)' /\ AliasNeverBehind'
                /\ \A h \in Generation : gstate'[h] = "published" => Firm(h)
  <2> SUFFICES ASSUME Alone PROVE /\ Owns(p)' /\ AliasNeverBehind'
                                  /\ \A h \in Generation : gstate'[h] = "published" => Firm(h)
    OBVIOUS
  <2>1. owner = p /\ (w.was # 0 => gstate[w.was] = "published" /\ w.was \in Generation)
    BY <1>1, <1>4 DEF Alone, Owns, Idle, Label, Over, Work
  <2>2. w.was # 0 => gstate'[w.was] = "published"
    BY <1>7, <2>1
  <2>3. Owns(p)'
    BY <1>1, <1>4, <1>6, <1>7, <2>1, <2>2 DEF Owns, StepOf, Idle, Label, Over, Building, jobVars
  <2>4. AliasNeverBehind'
    BY <1>1, <1>7 DEF Alone, AliasNeverBehind, PubTypes, storeVars
  <2>. QED BY <1>7, <2>3, <2>4 DEF Alone
<1>. QED BY <1>1, <1>5, <1>6, <1>8, <1>9, <1>10, <1>11, KernelStep

LEMMA BeginKeeps ==
    ASSUME PublicationInv, NEW p \in Process, Begin(p)
    PROVE  PublicationInv'
<1> DEFINE g == work[p].gen
           fresh == work[p].step = "Build" /\ search[g] = "none"
<1>1. PubTypes /\ GenTypeOK /\ Relies(p) /\ pc[p] = "begin" /\ pc[p] \notin Idle
      /\ work[p] \in Work /\ UNCHANGED <<storeVars, jobVars, lost, stalls, req, key>>
  BY DEF PublicationInv, IInv, Begin, Idle, histVars, PubTypes
<1>2. IsOf(g, req[p].set) /\ g \in Generation
  BY <1>1 DEF Relies, IsOf, AtWork, Label, Idle, Over, Choosing
<1>3. CASE Fail(p) /\ UNCHANGED genVars
  BY <1>1, <1>3, FailsQuietly
<1>4. CASE /\ IF fresh THEN BeginSearch(g) ELSE UNCHANGED genVars
           /\ Moves(p, "ensure", [work[p] EXCEPT !.indexed = StartAfter(p, fresh)])
  <2>1. StartAfter(p, fresh) \in 0..Chunks /\ Written(g, StartAfter(p, fresh))
    <3>1. 0 \in 0..Chunks /\ work[p].resume.indexed \in 0..Chunks /\ Written(g, 0)
      BY <1>1, PublicationAssumption DEF Work, Progress, Written
    <3>2. work[p].resume.generation = g => Written(g, work[p].resume.indexed)
      <4>1. 0 \notin Generation
        BY DEF Generation
      <4>. QED BY <1>1, <1>2, <4>1 DEF Relies
    <3>. QED BY <3>1, <3>2 DEF StartAfter
  <2>2. PICK w \in Work : w = [work[p] EXCEPT !.indexed = StartAfter(p, fresh)]
    BY <1>1, <2>1, WorkTypes
  <2>3. /\ w.gen = g /\ w.step = work[p].step /\ w.was = work[p].was
        /\ w.resume = work[p].resume /\ w.indexed = StartAfter(p, fresh)
    BY <1>1, <2>1, <2>2 DEF Work
  <2>4. "ensure" \in Label \ Over /\ "ensure" \in AtWork
    BY DEF Label, Over, AtWork, Idle, Choosing
  <2>5. /\ Steps(p, "ensure", w, key[p])
        /\ pc'[p] = "ensure" /\ work'[p] = w /\ key'[p] = key[p] /\ req' = req
    BY <1>1, <1>4, <2>2, <2>4, MovesTo
  <2>6. [GenNext]_genVars
    BY <1>2, <1>4 DEF GenNext
  <2>7. /\ UNCHANGED <<gstate, collection, chunkSet>>
        /\ \A h \in Generation : search[h] = "ready" => search'[h] = "ready"
    BY <1>1, <1>2, <1>4 DEF BeginSearch, GenTypeOK, genVars
  <2>8. \A h \in Generation :
          /\ collection'[h] = C
          /\ search[h] = "ready" => search'[h] = "ready"
          /\ gstate[h] # "none" => gstate'[h] # "none" /\ chunkSet'[h] = chunkSet[h]
          /\ gstate'[h] \in {"verified", "published", "retired"} => search'[h] = "ready" /\ Sound(h)
          /\ gstate'[h] = "failed" => h \in lost
    BY <2>7 DEF PublicationInv, GenerationsKept
  <2>9. Relies(p)'
    <3>1. IsOf(w.gen, req[p].set)'
      BY <1>2, <2>3, <2>5, <2>7 DEF IsOf
    <3>2. /\ w.step \in {"Build", "Check"} /\ w.step # "Over"
          /\ w.step = "Check" => Sound(w.gen)
      BY <1>1, <2>3 DEF Relies, AtWork, Building, Label, Idle, Over, Choosing
    <3>. QED BY <1>1, <2>1, <2>3, <2>4, <2>5, <2>8, <3>1, <3>2, KernelRelies
  <2>10. Alone => /\ Owns(p)' /\ AliasNeverBehind'
                  /\ \A h \in Generation : gstate'[h] = "published" => Firm(h)
    BY <1>1, <2>3, <2>5, <2>7 DEF Alone, Owns, AliasNeverBehind, Idle, Label, Over, Building,
       jobVars, storeVars
  <2>. QED BY <1>1, <2>4, <2>5, <2>6, <2>8, <2>9, <2>10, KernelStep
<1>. QED BY <1>3, <1>4 DEF Begin

LEMMA ReadyKeeps ==
    ASSUME PublicationInv, NEW p \in Process, Ready(p)
    PROVE  PublicationInv'
<1>1. PubTypes /\ GenTypeOK /\ Relies(p) /\ pc[p] = "ready" /\ pc[p] \notin Idle
      /\ work[p] \in Work /\ UNCHANGED <<storeVars, jobVars, lost, stalls, req, key>>
  BY DEF PublicationInv, IInv, Ready, Idle, histVars, PubTypes
<1>2. PICK w \in Work : w = work[p]
  BY <1>1
<1>3. w.gen \in Generation /\ IsOf(w.gen, req[p].set) /\ w.step # "Over" /\ Sound(w.gen)
  BY <1>1, <1>2 DEF Relies, IsOf, AtWork, Label, Idle, Over, Choosing
<1>4. CASE Fail(p) /\ UNCHANGED genVars
  BY <1>1, <1>4, FailsQuietly
<1>5. CASE CompleteSearch(w.gen) /\ Goto(p, "verify")
  <2>1. "verify" \in Label \ Over /\ "verify" \in AtWork
    BY DEF Label, Over, AtWork, Idle, Choosing
  <2>2. /\ Steps(p, "verify", w, key[p])
        /\ pc'[p] = "verify" /\ work'[p] = w /\ key'[p] = key[p] /\ req' = req
    BY <1>1, <1>2, <1>5, <2>1, MovesTo DEF Goto
  <2>3. [GenNext]_genVars
    BY <1>3, <1>5 DEF GenNext
  <2>4. /\ UNCHANGED <<gstate, collection, chunkSet>> /\ search'[w.gen] = "ready"
        /\ \A h \in Generation : search[h] = "ready" => search'[h] = "ready"
    BY <1>1, <1>3, <1>5 DEF CompleteSearch, GenTypeOK
  <2>5. \A h \in Generation :
          /\ collection'[h] = C
          /\ search[h] = "ready" => search'[h] = "ready"
          /\ gstate[h] # "none" => gstate'[h] # "none" /\ chunkSet'[h] = chunkSet[h]
          /\ gstate'[h] \in {"verified", "published", "retired"} => search'[h] = "ready" /\ Sound(h)
          /\ gstate'[h] = "failed" => h \in lost
    BY <2>4 DEF PublicationInv, GenerationsKept
  <2>6. Relies(p)'
    <3>1. IsOf(w.gen, req[p].set)'
      BY <1>3, <2>2, <2>4 DEF IsOf
    <3>. QED BY <1>1, <1>2, <1>3, <2>1, <2>2, <2>4, <2>5, <3>1, KernelRelies DEF Building
  <2>7. Alone => /\ Owns(p)' /\ AliasNeverBehind'
                 /\ \A h \in Generation : gstate'[h] = "published" => Firm(h)
    BY <1>1, <1>2, <2>2, <2>4 DEF Alone, Owns, AliasNeverBehind, Firm, Idle, Label, Over, Building,
       jobVars, storeVars
  <2>. QED BY <1>1, <2>1, <2>2, <2>3, <2>5, <2>6, <2>7, KernelStep
<1>. QED BY <1>2, <1>4, <1>5 DEF Ready

(* The generation at work, verified or failed, and nothing else.           *)
LEMMA MovedKeeps ==
    ASSUME PublicationInv, NEW g \in Generation, NEW s \in {"verified", "failed"},
           LegalMove(g, s), gstate' = [gstate EXCEPT ![g] = s],
           UNCHANGED <<collection, chunkSet, search, events>>,
           s = "verified" => search[g] = "ready" /\ Sound(g),
           s = "failed" => g \in lost
    PROVE  /\ [GenNext]_genVars
           /\ gstate'[g] = s /\ gstate[g] \in {"building", "verified"}
           /\ \A h \in Generation \ {g} : gstate'[h] = gstate[h]
           /\ \A h \in Generation :
                /\ collection'[h] = C
                /\ search[h] = "ready" => search'[h] = "ready"
                /\ gstate[h] # "none" => gstate'[h] # "none" /\ chunkSet'[h] = chunkSet[h]
                /\ gstate'[h] \in {"verified", "published", "retired"} =>
                      search'[h] = "ready" /\ Sound(h)
                /\ gstate'[h] = "failed" => h \in lost
<1>1. GenTypeOK
  BY DEF PublicationInv, IInv
<1>2. [GenNext]_genVars
  <2>1. VerifyGeneration(g) \/ FailGeneration(g)
    BY DEF VerifyGeneration, FailGeneration
  <2>. QED BY <2>1 DEF GenNext
<1>3. gstate'[g] = s /\ gstate[g] \in {"building", "verified"}
      /\ \A h \in Generation \ {g} : gstate'[h] = gstate[h]
  BY <1>1 DEF GenTypeOK, LegalMove, GenMayMoveTo
<1>. QED BY <1>2, <1>3 DEF PublicationInv, GenerationsKept

LEMMA VerifyKeeps ==
    ASSUME PublicationInv, NEW p \in Process, Verify(p)
    PROVE  PublicationInv'
<1>1. PubTypes /\ GenTypeOK /\ Relies(p) /\ pc[p] = "verify" /\ pc[p] \notin Idle
      /\ work[p] \in Work /\ UNCHANGED <<storeVars, jobVars, lost, stalls, req, key>>
  BY DEF PublicationInv, IInv, Verify, Idle, histVars, PubTypes
<1>2. PICK w \in Work : w = work[p]
  BY <1>1
<1>3. w.gen \in Generation /\ IsOf(w.gen, req[p].set) /\ w.step # "Over" /\ Sound(w.gen)
      /\ search[w.gen] = "ready"
  BY <1>1, <1>2 DEF Relies, IsOf, AtWork, Label, Idle, Over, Choosing
<1>4. CASE Fail(p) /\ UNCHANGED genVars
  BY <1>1, <1>4, FailsQuietly
<1>5. ASSUME NEW l \in {"recheck", "switch"}, VerifyGeneration(w.gen), Goto(p, l)
      PROVE  PublicationInv'
  <2>1. l \in Label \ Over /\ l \in AtWork
    BY DEF Label, Over, AtWork, Idle, Choosing
  <2>2. /\ Steps(p, l, w, key[p])
        /\ pc'[p] = l /\ work'[p] = w /\ key'[p] = key[p] /\ req' = req
    BY <1>1, <1>2, <1>5, <2>1, MovesTo DEF Goto
  <2>3. UNCHANGED <<collection, chunkSet, search, events>>
    BY <1>5 DEF VerifyGeneration
  <2>4. /\ [GenNext]_genVars
        /\ gstate'[w.gen] = "verified" /\ gstate[w.gen] \in {"building", "verified"}
        /\ \A h \in Generation \ {w.gen} : gstate'[h] = gstate[h]
        /\ \A h \in Generation :
             /\ collection'[h] = C
             /\ search[h] = "ready" => search'[h] = "ready"
             /\ gstate[h] # "none" => gstate'[h] # "none" /\ chunkSet'[h] = chunkSet[h]
             /\ gstate'[h] \in {"verified", "published", "retired"} =>
                   search'[h] = "ready" /\ Sound(h)
             /\ gstate'[h] = "failed" => h \in lost
    BY <1>3, <1>5, MovedKeeps DEF VerifyGeneration
  <2>5. Relies(p)'
    <3>1. IsOf(w.gen, req[p].set)'
      BY <1>3, <2>2, <2>3, <2>4 DEF IsOf
    <3>. QED BY <1>1, <1>2, <1>3, <2>1, <2>2, <2>4, <3>1, KernelRelies DEF Building
  <2>6. ASSUME Alone
        PROVE  /\ Owns(p)' /\ AliasNeverBehind'
               /\ \A h \in Generation : gstate'[h] = "published" => Firm(h)
    <3>1. owner = p /\ Firm(w.gen) /\ (w.was # 0 => gstate[w.was] = "published")
      BY <1>1, <1>2, <2>6 DEF Alone, Owns, Idle, Label, Over
    <3>2. w.was # 0 => gstate'[w.was] = "published"
      BY <1>1, <1>3, <2>4, <3>1 DEF Work
    <3>3. Owns(p)'
      BY <1>1, <2>2, <2>4, <3>1, <3>2
         DEF Owns, Firm, Idle, Label, Over, Building, jobVars, storeVars
    <3>. QED BY <1>1, <1>3, <2>4, <2>6, <3>3 DEF Alone, AliasNeverBehind, PubTypes, storeVars
  <2>. QED BY <1>1, <2>1, <2>2, <2>4, <2>5, <2>6, KernelStep
<1>. QED BY <1>2, <1>4, <1>5 DEF Verify

LEMMA FailCheckKeeps ==
    ASSUME PublicationInv, NEW p \in Process, FailCheck(p)
    PROVE  PublicationInv'
<1>1. PubTypes /\ GenTypeOK /\ Relies(p) /\ pc[p] = "fail" /\ pc[p] \notin Idle
      /\ work[p] \in Work /\ UNCHANGED <<storeVars, jobVars, lost, stalls, req, key>>
  BY DEF PublicationInv, IInv, FailCheck, Idle, histVars, PubTypes
<1>2. PICK w \in Work : w = work[p]
  BY <1>1
<1>3. w.gen \in Generation /\ IsOf(w.gen, req[p].set) /\ w.step # "Over" /\ w.gen \in lost
      /\ Sound(w.gen)
  BY <1>1, <1>2 DEF Relies, IsOf, AtWork, Label, Idle, Over, Choosing, Sound
<1>4. CASE Fail(p) /\ UNCHANGED genVars
  BY <1>1, <1>4, FailsQuietly
<1>5. ASSUME NEW l \in {"failed", "restore"}, FailGeneration(w.gen), Goto(p, l)
      PROVE  PublicationInv'
  <2>1. UNCHANGED <<collection, chunkSet, search, events>>
    BY <1>5 DEF FailGeneration
  <2>2. /\ [GenNext]_genVars
        /\ gstate'[w.gen] = "failed" /\ gstate[w.gen] \in {"building", "verified"}
        /\ \A h \in Generation \ {w.gen} : gstate'[h] = gstate[h]
        /\ \A h \in Generation :
             /\ collection'[h] = C
             /\ search[h] = "ready" => search'[h] = "ready"
             /\ gstate[h] # "none" => gstate'[h] # "none" /\ chunkSet'[h] = chunkSet[h]
             /\ gstate'[h] \in {"verified", "published", "retired"} =>
                   search'[h] = "ready" /\ Sound(h)
             /\ gstate'[h] = "failed" => h \in lost
    BY <1>3, <1>5, MovedKeeps DEF FailGeneration
  <2>3. Alone => /\ AliasNeverBehind'
                 /\ \A h \in Generation : gstate'[h] = "published" => Firm(h)
    BY <1>1, <1>3, <2>2 DEF Alone, AliasNeverBehind, PubTypes, storeVars
  <2>4. CASE l = "failed"
    <3>1. /\ Steps(p, l, Fresh, key[p]) /\ l \in Label /\ Fresh \in Work
          /\ pc'[p] = l /\ work'[p] = Fresh /\ Relies(p)'
      BY <1>1, <1>5, <2>4, EndsIn DEF Goto, Over, jobVars
    <3>2. Alone => Owns(p)'
      BY <1>1, <2>4, <3>1 DEF Alone, Owns, Over, Building, Fresh, jobVars
    <3>. QED BY <1>1, <2>2, <2>3, <3>1, <3>2, KernelStep
  <2>5. CASE l = "restore"
    <3>1. l \in Label \ Over /\ l \in AtWork
      BY <2>5 DEF Label, Over, AtWork, Idle, Choosing
    <3>2. /\ Steps(p, l, w, key[p])
          /\ pc'[p] = l /\ work'[p] = w /\ key'[p] = key[p] /\ req' = req
      BY <1>1, <1>2, <1>5, <3>1, MovesTo DEF Goto
    <3>3. Relies(p)'
      <4>1. IsOf(w.gen, req[p].set)'
        BY <1>3, <2>1, <2>2, <3>2 DEF IsOf
      <4>. QED BY <1>1, <1>2, <1>3, <2>2, <2>5, <3>1, <3>2, <4>1, KernelRelies DEF Building
    <3>4. ASSUME Alone PROVE Owns(p)'
      <4>1. owner = p /\ (w.was # 0 => gstate[w.was] = "published")
        BY <1>1, <1>2, <3>4 DEF Alone, Owns, Idle, Label, Over
      <4>2. w.was # 0 => gstate'[w.was] = "published"
        BY <1>1, <1>3, <2>2, <4>1 DEF Work
      <4>. QED BY <1>1, <2>5, <3>2, <4>1, <4>2
               DEF Owns, Idle, Label, Over, Building, jobVars
    <3>. QED BY <1>1, <2>2, <2>3, <3>1, <3>2, <3>3, <3>4, KernelStep
  <2>. QED BY <2>4, <2>5
<1>. QED BY <1>2, <1>4, <1>5 DEF FailCheck

(* Publication: the only generation published is the one at work, which is *)
(* whole, and the alias names it.                                          *)
LEMMA PublishKeeps ==
    ASSUME PublicationInv, NEW p \in Process, Publish(p)
    PROVE  PublicationInv'
<1>1. PubTypes /\ GenTypeOK /\ Relies(p) /\ pc[p] = "publish" /\ pc[p] \notin Idle
      /\ work[p] \in Work /\ UNCHANGED <<storeVars, jobVars, lost, stalls, req, key>>
  BY DEF PublicationInv, IInv, Publish, Idle, histVars, PubTypes
<1>2. PICK w \in Work : w = work[p]
  BY <1>1
<1>3. w.gen \in Generation /\ IsOf(w.gen, req[p].set) /\ SetOf(key[p]) = req[p].set
  BY <1>1, <1>2 DEF Relies, IsOf, AtWork, Label, Idle, Over, Choosing
<1>4. CASE Fail(p) /\ UNCHANGED genVars
  BY <1>1, <1>4, FailsQuietly
<1>5. CASE PublishGeneration(w.gen) /\ Goto(p, "succeeded")
  <2>1. /\ Steps(p, "succeeded", Fresh, key[p]) /\ "succeeded" \in Label /\ Fresh \in Work
        /\ pc'[p] = "succeeded" /\ work'[p] = Fresh /\ key'[p] = key[p] /\ Relies(p)'
    BY <1>1, <1>5, EndsIn DEF Goto, Over, jobVars
  <2>2. [GenNext]_genVars
    BY <1>3, <1>5 DEF GenNext
  <2>3. \A h \in Generation : h \in PublishedIn(collection[w.gen]) <=> gstate[h] = "published"
    BY <1>3 DEF PublicationInv, GenerationsKept, PublishedIn
  <2>4. /\ gstate[w.gen] = "verified" /\ gstate'[w.gen] = "published"
        /\ \A h \in Generation \ {w.gen} :
              gstate'[h] = IF gstate[h] = "published" THEN "retired" ELSE gstate[h]
        /\ UNCHANGED <<collection, chunkSet, search>>
    BY <1>3, <1>5, <2>3 DEF PublishGeneration, PublishIn, LegalMove, GenMayMoveTo
  <2>5. \A h \in Generation :
          /\ collection'[h] = C
          /\ search[h] = "ready" => search'[h] = "ready"
          /\ gstate[h] # "none" => gstate'[h] # "none" /\ chunkSet'[h] = chunkSet[h]
          /\ gstate'[h] \in {"verified", "published", "retired"} => search'[h] = "ready" /\ Sound(h)
          /\ gstate'[h] = "failed" => h \in lost
    BY <1>3, <2>4 DEF PublicationInv, GenerationsKept
  <2>6. ASSUME Alone
        PROVE  /\ Owns(p)' /\ AliasNeverBehind'
               /\ \A h \in Generation : gstate'[h] = "published" => Firm(h)
    <3>1. owner = p /\ Firm(w.gen) /\ alias \in {w.gen, 0}
      BY <1>1, <1>2, <2>6 DEF Alone, Owns, Idle
    <3>2. \A h \in Generation : gstate'[h] = "published" => h = w.gen
      BY <2>4
    <3>3. AliasNeverBehind'
      BY <1>1, <2>4, <3>1 DEF AliasNeverBehind, storeVars
    <3>4. SetOf(key[p])' = req[p].set
      BY <1>1, <1>3, <2>1 DEF SetOf, jobVars
    <3>5. \E h \in Generation : gstate'[h] = "published" /\ chunkSet'[h] = SetOf(key[p])'
      BY <1>3, <2>4, <3>4 DEF IsOf
    <3>6. Owns(p)'
      BY <1>1, <2>1, <3>1, <3>5 DEF Owns, Over, Building, Fresh, jobVars
    <3>. QED BY <3>1, <3>2, <3>3, <3>6
  <2>. QED BY <1>1, <2>1, <2>2, <2>5, <2>6, KernelStep
<1>6. ASSUME Moves(p, IF Published = 0 THEN "failed" ELSE "restore", SawPublished(p)),
             UNCHANGED genVars
      PROVE  PublicationInv'
  <2>1. CASE Published = 0
    BY <1>1, <1>6, <2>1, EndsQuietly DEF Over
  <2>2. CASE Published # 0
    <3>1. "restore" \in Label \ Over /\ SawPublished(p) \in Work
      BY SawIs DEF Label, Over
    <3>2. /\ Steps(p, "restore", SawPublished(p), key[p]) /\ key[p] \in Key \cup {NoKey}
          /\ pc'[p] = "restore" /\ work'[p] = SawPublished(p) /\ key'[p] = key[p] /\ req' = req
      BY <1>1, <1>6, <2>2, <3>1, MovesTo
    <3>3. Relies(p)'
      BY <1>1, <1>6, <3>2, SawIs DEF Relies, Rebuilds, AtWork, Label, Idle, Over, Choosing,
         Building, IsOf, Written, Present, Sound, SetOf, genVars, storeVars, jobVars
    <3>4. Alone => Owns(p)'
      BY <1>1, <1>6, <3>2, SawIs, PublishedIs DEF PublicationInv, GenerationsKept, Alone, Owns,
         Label, Idle, Over, Building, genVars, storeVars, jobVars
    <3>. QED BY <1>1, <1>6, <3>1, <3>2, <3>3, <3>4, QuietStep
  <2>. QED BY <2>1, <2>2
<1>. QED BY <1>2, <1>4, <1>5, <1>6 DEF Publish, PublishGeneration, PublishGenerationIfCurrent

-----------------------------------------------------------------------------
(* The ends of a command.                                                  *)

LEMMA ExitsTo ==
    ASSUME PublicationInv, NEW p \in Process, NEW l \in {"done", "died"}, Exits(p, l), req' = req
    PROVE  /\ Steps(p, l, Fresh, NoKey) /\ l \in Label /\ Fresh \in Work
           /\ pc'[p] = l /\ Relies(p)' /\ Owns(p)'
<1>1. PubTypes
  BY DEF PublicationInv
<1>2. Steps(p, l, Fresh, NoKey) /\ l \in Label /\ Fresh \in Work
  BY WorkTypes DEF Exits, Moves, Steps, Label
<1>3. pc'[p] = l /\ work'[p] = Fresh /\ key'[p] = NoKey
  BY <1>1, <1>2, StepsTypes
<1>4. Relies(p)'
  BY <1>3 DEF Relies, AtWork, Idle, Building, Fresh, None
<1>5. Owns(p)'
  BY <1>3 DEF Owns, Idle, Building
<1>. QED BY <1>2, <1>3, <1>4, <1>5

LEMMA CompleteKeeps ==
    ASSUME PublicationInv, NEW p \in Process, Complete(p)
    PROVE  PublicationInv'
<1>1. PubTypes /\ Relies(p) /\ pc[p] \in Over /\ pc[p] \notin Idle
      /\ UNCHANGED <<genVars, storeVars, progress, guard, lost, stalls, req>>
  BY DEF PublicationInv, Complete, Idle, Over, histVars
<1>2. /\ Steps(p, "done", Fresh, NoKey) /\ "done" \in Label /\ Fresh \in Work
      /\ Relies(p)' /\ Owns(p)'
  BY <1>1, ExitsTo DEF Complete
<1>3. /\ job' \in [Key -> {"none", "running", "succeeded", "failed", "cancelled"}]
      /\ owner' \in Process \cup {Nobody}
  BY <1>1 DEF Complete, PubTypes, Over
<1>4. PubTypes'
  BY <1>1, <1>2, <1>3, StepsTypes DEF PubTypes, storeVars
<1>5. Lasting /\ GenerationsKept' /\ ProgressKept' /\ IInv'
  BY <1>1, QuietLasts
<1>6. Alone => AliasNeverBehind' /\ \A g \in Generation : gstate'[g] = "published" => Firm(g)'
  BY <1>1 DEF Alone, AliasNeverBehind, Firm, genVars, storeVars
<1>. QED BY <1>1, <1>2, <1>4, <1>5, <1>6, OwnerStep

LEMMA DiesKeeps ==
    ASSUME PublicationInv, NEW p \in Process, Dies(p)
    PROVE  PublicationInv'
<1>1. pc[p] \notin Idle /\ UNCHANGED <<genVars, storeVars, jobVars, lost, stalls, req>>
  BY DEF Dies, Works, Idle
<1>2. /\ Steps(p, "died", Fresh, NoKey) /\ "died" \in Label /\ Fresh \in Work
      /\ Relies(p)' /\ Owns(p)'
  BY <1>1, ExitsTo DEF Dies
<1>. QED BY <1>1, <1>2, QuietStep

LEMMA BreaksKeeps ==
    ASSUME PublicationInv, NEW p \in Process, Breaks(p)
    PROVE  PublicationInv'
<1>1. pc[p] \notin Idle /\ Fail(p)
      /\ UNCHANGED <<genVars, storeVars, jobVars, lost, stalls, req, key>>
  BY DEF Breaks, Works, Idle
<1>. QED BY <1>1, FailsQuietly

-----------------------------------------------------------------------------
(* The steps before a command has the lease.                               *)

LEMMA PlanKeeps ==
    ASSUME PublicationInv, NEW p \in Process, Plan(p)
    PROVE  PublicationInv'
<1>1. PubTypes /\ Relies(p) /\ pc[p] = "start"
      /\ UNCHANGED <<genVars, storeVars, jobVars, lost, stalls, req, key>>
  BY DEF PublicationInv, Plan, histVars
<1>2. SawPublished(p) \in Work /\ "freeze" \in Label \ Over
  BY SawIs DEF Label, Over
<1>3. /\ Steps(p, "freeze", SawPublished(p), key[p]) /\ key[p] \in Key \cup {NoKey}
      /\ pc'[p] = "freeze" /\ work'[p] = SawPublished(p) /\ key'[p] = key[p] /\ req' = req
  BY <1>1, <1>2, MovesTo DEF Plan
<1>4. Relies(p)'
  BY <1>1, <1>3, SawIs DEF Relies, Rebuilds, AtWork, Idle, Building,
     IsOf, Written, genVars, storeVars, jobVars
<1>5. Owns(p)'
  BY <1>3 DEF Owns, Idle, Building
<1>6. Lasting /\ ProgressKept'
  BY <1>1, QuietLasts DEF jobVars
<1>7. PubTypes'
  BY <1>1, <1>2, <1>3, StepsTypes DEF PubTypes, storeVars, jobVars
<1>. QED BY <1>1, <1>2, <1>3, <1>4, <1>5, <1>6, <1>7, IdleStep DEF jobVars

(* A command that is refused, or finds its job done, is over.              *)
LEMMA LeavesKeeps ==
    ASSUME PublicationInv, NEW p \in Process, Exits(p, "done"),
           UNCHANGED <<genVars, storeVars, jobVars, lost, stalls, req>>
    PROVE  PublicationInv'
<1>1. PubTypes
  BY DEF PublicationInv
<1>2. /\ Steps(p, "done", Fresh, NoKey) /\ "done" \in Label /\ Fresh \in Work
      /\ Relies(p)' /\ Owns(p)'
  BY ExitsTo
<1>3. Lasting /\ ProgressKept'
  BY QuietLasts DEF jobVars
<1>4. PubTypes'
  BY <1>1, <1>2, StepsTypes DEF PubTypes, storeVars, jobVars
<1>. QED BY <1>2, <1>3, <1>4, IdleStep DEF jobVars

LEMMA RefusedKeeps ==
    ASSUME PublicationInv, NEW p \in Process, Refused(p)
    PROVE  PublicationInv'
BY LeavesKeeps DEF Refused, histVars

(* The key an `--again` command is given, a new one or one it joins.       *)
LEMMA FrozenKeeps ==
    ASSUME PublicationInv, NEW p \in Process, pc[p] = "freeze", NEW k \in Again,
           Goto(p, "acquire"), key' = [key EXCEPT ![p] = k],
           UNCHANGED <<genVars, storeVars, owner, job, progress, lost, stalls, req>>,
           guard' \in [Again -> [set : ChunkSet \cup {NoKey}, expected : Generation \cup {0},
                                 watermark : Nat]],
           guard'[k].set = req[p].set,
           \A h \in Again : guard'[h].set = guard[h].set \/ guard[h].set = NoKey
    PROVE  PublicationInv'
<1>1. PubTypes /\ Relies(p) /\ work[p] \in Work /\ k \in Key
  BY DEF PublicationInv, PubTypes, Key
<1>2. Steps(p, "acquire", work[p], k) /\ "acquire" \in Label
  BY DEF Goto, Moves, Steps, Label
<1>3. /\ pc'[p] = "acquire" /\ work'[p] = work[p] /\ key'[p] = k /\ req' = req
  BY <1>1, <1>2, StepsTypes DEF Steps
<1>4. PubTypes'
  BY <1>1, <1>2, StepsTypes DEF PubTypes, storeVars
<1>5. Lasting
  BY DEF Lasting, SetOf, genVars, storeVars
<1>6. ProgressKept'
  <2> SUFFICES ASSUME NEW h \in Key
               PROVE  (/\ progress[h].generation # 0 =>
                             /\ IsOf(progress[h].generation, SetOf(h))
                             /\ Written(progress[h].generation, progress[h].indexed)
                       /\ h \in Again /\ guard[h].set = NoKey => progress[h].generation = 0)'
    BY DEF ProgressKept
  <2>1. /\ progress[h].generation # 0 =>
              /\ IsOf(progress[h].generation, SetOf(h))
              /\ Written(progress[h].generation, progress[h].indexed)
        /\ h \in Again /\ guard[h].set = NoKey => progress[h].generation = 0
    BY DEF PublicationInv, ProgressKept
  <2>2. h \in Again => guard'[h].set = guard[h].set \/ guard[h].set = NoKey
    OBVIOUS
  <2>3. progress[h].generation # 0 => SetOf(h)' = SetOf(h)
    BY <2>1, <2>2 DEF SetOf
  <2>4. progress[h].generation # 0 => ~(h \in Again /\ guard'[h].set = NoKey)
    BY <2>1, <2>2
  <2>. QED BY <2>1, <2>3, <2>4 DEF IsOf, Written, genVars, storeVars
<1>7. Relies(p)'
  <2>1. SetOf(key[p])' = req[p].set
    BY <1>3 DEF SetOf
  <2>2. work[p].resume.generation # 0 =>
           /\ IsOf(work[p].resume.generation, req[p].set)'
           /\ Written(work[p].resume.generation, work[p].resume.indexed)'
    BY <1>1, <1>3 DEF Relies, IsOf, Written, genVars, storeVars
  <2>. QED BY <1>1, <1>3, <2>1, <2>2 DEF Relies, Rebuilds, AtWork, Idle, Building
<1>8. Owns(p)'
  BY <1>3 DEF Owns, Idle, Building
<1>. QED BY <1>1, <1>2, <1>4, <1>5, <1>6, <1>7, <1>8, IdleStep

LEMMA FreezeKeeps ==
    ASSUME PublicationInv, NEW p \in Process, Freeze(p)
    PROVE  PublicationInv'
<1>1. PubTypes /\ Relies(p) /\ pc[p] = "freeze" /\ work[p] \in Work /\ req[p].set \in ChunkSet
      /\ UNCHANGED <<genVars, storeVars, owner, job, progress, lost, stalls, req>>
  BY DEF PublicationInv, Freeze, histVars, PubTypes, Request
<1>2. CASE Exits(p, "done") /\ UNCHANGED guard
  BY <1>1, <1>2, LeavesKeeps DEF jobVars
<1>3. ASSUME NEW k \in Again, guard[k].set = req[p].set, UNCHANGED guard,
             Goto(p, "acquire"), key' = [key EXCEPT ![p] = k]
      PROVE  PublicationInv'
  BY <1>1, <1>3, FrozenKeeps DEF PubTypes
<1>4. ASSUME NEW k \in Again, guard[k].set = NoKey, Goto(p, "acquire"), key' = [key EXCEPT ![p] = k],
             guard' = [guard EXCEPT ![k] = [set |-> req[p].set, expected |-> work[p].was,
                                            watermark |-> Cardinality(Recorded)]]
      PROVE  PublicationInv'
  <2>1. Cardinality(Recorded) \in Nat
    <3>1. IsFiniteSet(Generation)
      BY GenerationsAssumption, FS_Interval DEF Generation
    <3>2. Recorded \subseteq Generation
      BY DEF Recorded
    <3>. QED BY <3>1, <3>2, FS_Subset, FS_CardinalityType
  <2>2. work[p].was \in Generation \cup {0}
    BY <1>1 DEF Work
  <2>3. PICK n \in Nat : n = Cardinality(Recorded)
    BY <2>1
  <2>4. guard' = [guard EXCEPT ![k] = [set |-> req[p].set, expected |-> work[p].was,
                                       watermark |-> n]]
    BY <1>4, <2>3
  <2>5. guard' \in [Again -> [set : ChunkSet \cup {NoKey}, expected : Generation \cup {0},
                              watermark : Nat]]
    BY <1>1, <2>2, <2>4 DEF PubTypes
  <2>6. guard'[k].set = req[p].set /\ \A h \in Again : h # k => guard'[h] = guard[h]
    BY <1>1, <2>4 DEF PubTypes
  <2>. QED BY <1>1, <1>4, <2>5, <2>6, FrozenKeeps
<1>. QED BY <1>2, <1>3, <1>4 DEF Freeze

LEMMA AcquireKeeps ==
    ASSUME PublicationInv, NEW p \in Process, Acquire(p)
    PROVE  PublicationInv'
<1>1. PubTypes /\ Relies(p) /\ pc[p] = "acquire" /\ work[p] \in Work /\ key[p] \in Key
      /\ SetOf(key[p]) = req[p].set
      /\ UNCHANGED <<genVars, storeVars, progress, guard, lost, req>>
  BY DEF PublicationInv, Acquire, PubTypes, Relies
<1>2. CASE Exits(p, "done") /\ UNCHANGED <<owner, job, stalls, faults>>
  BY <1>1, <1>2, LeavesKeeps DEF jobVars
<1>3. CASE /\ stalls' = (IF LeaseFree THEN stalls ELSE stalls + 1)
           /\ owner' = p
           /\ job' = [k \in Key |-> IF k = key[p] THEN "running"
                                    ELSE IF job[k] = "running" THEN "cancelled" ELSE job[k]]
           /\ Moves(p, IF Rebuilds(p) THEN "load" ELSE "select",
                    [work[p] EXCEPT !.resume = progress[key[p]]])
           /\ UNCHANGED key
  <2>1. PICK l \in {"load", "select"} :
           /\ Moves(p, l, [work[p] EXCEPT !.resume = progress[key[p]]])
           /\ l = "select" => ~Rebuilds(p)
    BY <1>3
  <2>2. progress[key[p]] \in Progress
    BY <1>1 DEF PubTypes
  <2>3. PICK w \in Work : w = [work[p] EXCEPT !.resume = progress[key[p]]]
    BY <1>1, <2>2, WorkTypes
  <2>4. w.resume = progress[key[p]] /\ w.was = work[p].was
    BY <1>1, <2>3 DEF Work
  <2>5. l \in Label \ Over
    BY DEF Label, Over
  <2>6. /\ Steps(p, l, w, key[p]) /\ key[p] \in Key \cup {NoKey}
        /\ pc'[p] = l /\ work'[p] = w /\ key'[p] = key[p] /\ req' = req
    BY <1>1, <1>3, <2>1, <2>3, <2>5, MovesTo
  <2>7. stalls' \in Nat /\ (stalls' = 0 => stalls = 0 /\ LeaseFree)
    BY <1>1, <1>3 DEF PubTypes
  <2>8. /\ job' \in [Key -> {"none", "running", "succeeded", "failed", "cancelled"}]
        /\ owner' \in Process \cup {Nobody}
    BY <1>1, <1>3 DEF PubTypes
  <2>9. PubTypes'
    BY <1>1, <2>5, <2>6, <2>7, <2>8, StepsTypes DEF PubTypes, storeVars
  <2>10. Lasting /\ ProgressKept'
    BY <1>1, QuietLasts
  <2>11. Relies(p)'
    <3>1. w.resume.generation # 0 =>
             /\ IsOf(w.resume.generation, req[p].set)'
             /\ Written(w.resume.generation, w.resume.indexed)'
      BY <1>1, <2>4, <2>6
         DEF PublicationInv, ProgressKept, IsOf, Written, genVars, storeVars
    <3>. QED BY <1>1, <2>6, <3>1 DEF Relies, Rebuilds, SetOf, AtWork, Choosing, Building
  <2>12. ASSUME Alone, stalls' = 0
         PROVE  Owns(p)' /\ \A q \in Process \ {p} : pc[q] \notin Idle => owner' = owner
    <3>1. \A q \in Process : pc[q] \in Idle
      BY <2>7, <2>12, NamesAreNew DEF Alone, Owns, LeaseFree, Idle
    <3>2. l = "select" => w.was = 0
      BY <1>1, <2>1, <2>4 DEF Relies
    <3>. QED BY <1>3, <2>6, <3>1, <3>2 DEF Owns, Idle, Over, Building
  <2>. QED BY <1>1, <2>5, <2>6, <2>7, <2>9, <2>10, <2>11, <2>12, IdleStep
<1>. QED BY <1>2, <1>3 DEF Acquire

-----------------------------------------------------------------------------
(* A collection is lost: what is known of it is known of what was not.     *)
LEMMA LosesKeeps ==
    ASSUME PublicationInv, NEW g \in Generation, Loses(g)
    PROVE  PublicationInv'
<1>1. PubTypes /\ UNCHANGED <<genVars, jobVars, stalls, procVars>>
  BY DEF PublicationInv, Loses
<1>2. /\ held' = held \ {g} /\ lost' = lost \cup {g} /\ alias' \in {alias, 0}
      /\ points'[g] = {} /\ \A h \in Generation \ {g} : points'[h] = points[h]
      /\ points' \in [Generation -> SUBSET (1..Chunks)]
  BY <1>1 DEF Loses, PubTypes
<1>3. PubTypes'
  BY <1>1, <1>2 DEF PubTypes, jobVars, procVars
<1>4. IInv'
  BY <1>1, NextIInv DEF PublicationInv
<1>5. Lasting
  BY <1>1, <1>2 DEF Lasting, SetOf, genVars, jobVars
<1>6. GenerationsKept'
  BY <1>1, <1>2 DEF PublicationInv, GenerationsKept, Sound, genVars
<1>7. ProgressKept'
  BY <1>1, <1>2 DEF PublicationInv, ProgressKept, IsOf, Written, SetOf, genVars, jobVars
<1>8. \A p \in Process : Relies(p)'
  BY <1>1, <1>3, <1>5, ReliesLasts DEF procVars
<1>9. ASSUME stalls' = 0 PROVE Alone'
  <2>1. Alone
    BY <1>1, <1>9 DEF PublicationInv
  <2>2. \A h \in Generation : Firm(h) => Firm(h)'
    BY <1>2 DEF Firm
  <2>3. ASSUME NEW p \in Process PROVE Owns(p)'
    <3>1. Owns(p) /\ Relies(p)
      BY <2>1 DEF Alone, PublicationInv
    <3>2. pc[p] \in AtWork => work[p].gen \in Generation
      BY <3>1 DEF Relies, IsOf
    <3>. QED BY <1>1, <1>2, <3>1, <3>2 DEF Owns, Firm, SetOf, AtWork, Label, Idle, Over,
         Choosing, Building, genVars, jobVars, procVars
  <2>. QED BY <1>1, <1>2, <2>1, <2>2, <2>3 DEF Alone, AliasNeverBehind, genVars
<1>. QED BY <1>3, <1>4, <1>6, <1>7, <1>8, <1>9 DEF PublicationInv

LEMMA StutterKeeps ==
    ASSUME PublicationInv, UNCHANGED vars
    PROVE  PublicationInv'
<1>1. PubTypes /\ UNCHANGED <<genVars, storeVars, jobVars, histVars, procVars>>
  BY DEF PublicationInv, vars
<1>2. PubTypes'
  BY <1>1 DEF PubTypes, storeVars, jobVars, histVars, procVars
<1>3. Lasting /\ GenerationsKept' /\ ProgressKept' /\ IInv'
  BY <1>1, QuietLasts DEF jobVars, histVars
<1>4. \A p \in Process : Relies(p)'
  BY <1>1, <1>2, <1>3, ReliesLasts DEF procVars
<1>5. Alone => Alone'
  BY <1>1 DEF Alone, Owns, AliasNeverBehind, Firm, SetOf, StepOf,
     genVars, storeVars, jobVars, histVars, procVars
<1>. QED BY <1>1, <1>2, <1>3, <1>4, <1>5 DEF PublicationInv, histVars

LEMMA InitPublicationInv == Init => PublicationInv
<1> SUFFICES ASSUME Init PROVE PublicationInv
  OBVIOUS
<1>1. IInv
  BY InitIInv DEF Init
<1>2. /\ C \in Collection /\ \A g \in Generation : gstate[g] = "none" /\ collection[g] = C
  BY GenerationsAssumption DEF Init, GenInit, C
<1>3. req \in [Process -> Request]
  BY PublicationAssumption DEF Init
<1>4. \A p \in Process : /\ req[p].set \in ChunkSet /\ req[p].again \in BOOLEAN
                         /\ req[p].set \in Key /\ req[p].set \notin Again
  BY <1>3, PublicationAssumption DEF Request, Key
<1>5. PubTypes
  <2>1. None \in Progress /\ Fresh \in Work
    BY WorkTypes, PublicationAssumption DEF None, Progress
  <2>2. \A p \in Process : pc[p] \in {"start", "acquire"} /\ key[p] \in Key \cup {NoKey}
    BY <1>4 DEF Init
  <2>3. pc \in [Process -> Label] /\ key \in [Process -> Key \cup {NoKey}]
    BY <2>2 DEF Init, Label
  <2>4. guard \in [Again -> [set : ChunkSet \cup {NoKey}, expected : Generation \cup {0},
                             watermark : Nat]]
    BY DEF Init
  <2>. QED BY <1>3, <2>1, <2>3, <2>4 DEF Init, PubTypes
<1>6. GenerationsKept /\ ProgressKept
  BY <1>2 DEF Init, GenerationsKept, ProgressKept, None
<1>7. ASSUME NEW p \in Process PROVE Relies(p) /\ Owns(p)
  <2>1. /\ pc[p] \in {"start", "acquire"} /\ (pc[p] = "start" <=> Rebuilds(p))
        /\ (~Rebuilds(p) => key[p] = req[p].set) /\ work[p] = Fresh
    BY DEF Init
  <2>2. Relies(p)
    BY <1>4, <2>1 DEF Relies, Rebuilds, SetOf, AtWork, Idle, Building, Fresh, None
  <2>3. Owns(p)
    BY <2>1 DEF Owns, Idle, Building
  <2>. QED BY <2>2, <2>3
<1>8. Alone
  BY <1>2, <1>7 DEF Alone, AliasNeverBehind, Init
<1>. QED BY <1>1, <1>5, <1>6, <1>7, <1>8 DEF PublicationInv

LEMMA StepKeepsPublication == PublicationInv /\ [Next]_vars => PublicationInv'
<1> SUFFICES ASSUME PublicationInv, [Next]_vars PROVE PublicationInv'
  OBVIOUS
<1>1. ASSUME NEW p \in Process, Proceeds(p) PROVE PublicationInv'
  BY <1>1, PlanKeeps, FreezeKeeps, AcquireKeeps, RefusedKeeps, CompleteKeeps, SelectKeeps,
     CreateKeeps, ExistsKeeps, BeginKeeps, EnsureKeeps, UpsertKeeps, JournalKeeps, RollbackKeeps,
     CheckKeeps, ReadyKeeps, VerifyKeeps, FailCheckKeeps, RestoreKeeps, SwitchKeeps, PublishKeeps,
     LoadKeeps, CheckAliasKeeps, TargetKeeps, InitialKeeps, ProfileKeeps, ReconcileKeeps,
     RealignKeeps, RecheckKeeps, ConfirmKeeps DEF Proceeds
<1>. QED BY <1>1, BreaksKeeps, DiesKeeps, LosesKeeps, StutterKeeps DEF Next

LEMMA PublicationInductive == Spec => []PublicationInv
<1>. QED BY InitPublicationInv, StepKeepsPublication, PTL DEF Spec

-----------------------------------------------------------------------------
(* Type correctness of publication's state.                                *)
THEOREM PublicationTypeCorrect == Spec => []PubTypeOK
<1>1. PublicationInv => PubTypeOK
  BY DEF PublicationInv, IInv, PubTypes, PubTypeOK, Relies
<1>. QED BY <1>1, PublicationInductive, PTL

(* The published generation, which every search pins, has ready search     *)
(* inputs and, while Qdrant has its collection, a point for each chunk,    *)
(* whatever deaths, retries, losses and takeovers its build went through,  *)
(* unless it was lost and a process went on without its lease.             *)
THEOREM PublishedIsCompleteHolds == Spec => []PublishedIsComplete
<1>1. PublicationInv => PublishedIsComplete
  <2> SUFFICES ASSUME PublicationInv, NEW g \in Generation, gstate[g] = "published",
                      ~(stalls > 0 /\ g \in lost)
               PROVE  search[g] = "ready" /\ (g \in held => points[g] = 1..Chunks)
    BY DEF PublishedIsComplete
  <2>1. search[g] = "ready" /\ Sound(g) /\ stalls \in Nat
    BY DEF PublicationInv, GenerationsKept, PubTypes
  <2>2. CASE stalls = 0
    BY <2>1, <2>2 DEF PublicationInv, Alone, Firm
  <2>3. CASE g \notin lost
    BY <2>1, <2>3 DEF Sound
  <2>. QED BY <2>1, <2>2, <2>3
<1>. QED BY <1>1, PublicationInductive, PTL

(* A resumed build never skips a chunk: the chunks journaled of a          *)
(* generation are in its collection, unless Qdrant lost it.                *)
THEOREM ProgressIsWrittenHolds == Spec => []ProgressIsWritten
<1>1. PublicationInv => ProgressIsWritten
  BY DEF PublicationInv, ProgressKept, ProgressIsWritten, Written
<1>. QED BY <1>1, PublicationInductive, PTL

(* No crash, retry or takeover fails a generation: a check fails only what *)
(* Qdrant lost.                                                            *)
THEOREM FailsOnlyWhatWasLostHolds == Spec => []FailsOnlyWhatWasLost
<1>1. PublicationInv => FailsOnlyWhatWasLost
  BY DEF PublicationInv, GenerationsKept, FailsOnlyWhatWasLost
<1>. QED BY <1>1, PublicationInductive, PTL

(* While no process goes on without its lease, the alias never names a     *)
(* generation that publication left behind.                                *)
THEOREM AliasFollowsHolds == Spec => []AliasFollows
<1>1. PublicationInv => AliasFollows
  BY DEF PublicationInv, Alone, AliasFollows
<1>. QED BY <1>1, PublicationInductive, PTL

(* While no process goes on without its lease, a job succeeds only once    *)
(* its chunk set is the published one.                                     *)
THEOREM SuccessIsPublishedHolds == Spec => SuccessIsPublished
<1>1. ASSUME PublicationInv, Next, NEW k \in Key, stalls = 0,
             job'[k] = "succeeded", job[k] # "succeeded"
      PROVE  \E g \in Generation :
                 /\ gstate[g] = "published"
                 /\ chunkSet[g] = IF k \in Again THEN guard[k].set ELSE k
  <2>1. PubTypes /\ Alone
    BY <1>1 DEF PublicationInv
  <2>2. PICK p \in Process : Complete(p)
    <3>1. ASSUME NEW p \in Process, Acquire(p) PROVE FALSE
      BY <1>1, <2>1, <3>1 DEF Acquire, PubTypes
    <3>2. ASSUME NEW p \in Process, Proceeds(p), ~Acquire(p), ~Complete(p) PROVE job' = job
      BY <3>2 DEF Proceeds, Plan, Freeze, Refused, Select, Create, Exists, Begin, Ensure, Upsert,
         Journal, Rollback, Check, Ready, Verify, FailCheck, Restore, Switch, Publish, Load,
         CheckAlias, Target, Initial, Profile, Reconcile, Realign, Recheck, Confirm, jobVars
    <3>3. ASSUME NEW p \in Process, Breaks(p) \/ Dies(p) PROVE job' = job
      BY <3>3 DEF Breaks, Dies, jobVars
    <3>4. ASSUME NEW g \in Generation, Loses(g) PROVE job' = job
      BY <3>4 DEF Loses, jobVars
    <3>. QED BY <1>1, <3>1, <3>2, <3>3, <3>4 DEF Next
  <2>3. pc[p] = "succeeded" /\ k = key[p]
    BY <1>1, <2>1, <2>2 DEF Complete, PubTypes
  <2>. QED BY <2>1, <2>3 DEF Alone, Owns, SetOf
<1>2. PublicationInv /\ [Next]_vars =>
         [\A k \in Key : stalls = 0 /\ job'[k] = "succeeded" /\ job[k] # "succeeded" =>
             \E g \in Generation :
                 /\ gstate[g] = "published"
                 /\ chunkSet[g] = IF k \in Again THEN guard[k].set ELSE k]_vars
  BY <1>1
<1>. QED BY <1>2, PublicationInductive, PTL DEF Spec, SuccessIsPublished

(* Whatever the processes do, what they do to the kernel's generations is  *)
(* calls of the kernel: publication implements the generations' own        *)
(* specification, and with it all that is proved of it.                    *)
THEOREM PublicationRefinesGenerations == Spec => GenSpec
<1>1. Init => GenInit
  BY DEF Init
<1>2. PublicationInv /\ [Next]_vars => [GenNext]_genVars
  <2> SUFFICES ASSUME PublicationInv, Next PROVE [GenNext]_genVars
    BY DEF vars
  <2>1. ASSUME NEW p \in Process, Create(p) PROVE GenNext
    <3>1. C \in Collection /\ req[p].set \in ChunkSet
      BY PublishedIs DEF PublicationInv, GenerationsKept, PubTypes, Request
    <3>. QED BY <2>1, <3>1 DEF Create, GenNext
  <2>2. ASSUME NEW p \in Process, pc[p] \in AtWork PROVE work[p].gen \in Generation
    BY <2>2 DEF PublicationInv, Relies, IsOf
  <2>3. ASSUME NEW p \in Process, Begin(p) PROVE [GenNext]_genVars
    BY <2>2, <2>3 DEF Begin, GenNext, AtWork, Label, Idle, Over, Choosing
  <2>4. ASSUME NEW p \in Process, Ready(p) PROVE [GenNext]_genVars
    BY <2>2, <2>4 DEF Ready, GenNext, AtWork, Label, Idle, Over, Choosing
  <2>5. ASSUME NEW p \in Process, Verify(p) PROVE [GenNext]_genVars
    BY <2>2, <2>5 DEF Verify, GenNext, AtWork, Label, Idle, Over, Choosing
  <2>6. ASSUME NEW p \in Process, FailCheck(p) PROVE [GenNext]_genVars
    BY <2>2, <2>6 DEF FailCheck, GenNext, AtWork, Label, Idle, Over, Choosing
  <2>7. ASSUME NEW p \in Process, Publish(p) PROVE [GenNext]_genVars
    <3>1. work[p].gen \in Generation
      BY <2>2, <2>7 DEF Publish, AtWork, Label, Idle, Over, Choosing
    <3>2. PublishGeneration(work[p].gen) \/ UNCHANGED genVars
      BY <2>7 DEF Publish, PublishGeneration, PublishGenerationIfCurrent
    <3>. QED BY <3>1, <3>2 DEF GenNext
  <2>8. ASSUME NEW p \in Process,
               \/ Plan(p) \/ Freeze(p) \/ Acquire(p) \/ Refused(p) \/ Complete(p)
               \/ Select(p) \/ Exists(p) \/ Ensure(p) \/ Upsert(p) \/ Journal(p)
               \/ Rollback(p) \/ Check(p) \/ Restore(p) \/ Switch(p)
               \/ Load(p) \/ CheckAlias(p) \/ Target(p) \/ Initial(p) \/ Profile(p)
               \/ Reconcile(p) \/ Realign(p) \/ Recheck(p) \/ Confirm(p)
               \/ Breaks(p) \/ Dies(p)
        PROVE  UNCHANGED genVars
    BY <2>8 DEF Plan, Freeze, Acquire, Refused, Complete, Select, Exists, Ensure, Upsert,
       Journal, Rollback, Check, Restore, Switch, Load, CheckAlias, Target, Initial, Profile,
       Reconcile, Realign, Recheck, Confirm, Breaks, Dies
  <2>9. ASSUME NEW g \in Generation, Loses(g) PROVE UNCHANGED genVars
    BY <2>9 DEF Loses
  <2>. QED BY <2>1, <2>3, <2>4, <2>5, <2>6, <2>7, <2>8, <2>9 DEF Next, Proceeds
<1>. QED BY <1>1, <1>2, PublicationInductive, PTL DEF Spec, GenSpec

=============================================================================
