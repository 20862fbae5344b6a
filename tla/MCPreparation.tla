--------------------------- MODULE MCPreparation ---------------------------
(***************************************************************************)
(* Instances of Preparation for TLC.  Revisions 2 and 3 are versions of    *)
(* one page, or 1, 2 and 3 are three pages of which 1 repeats 2's content  *)
(* and 3 nearly does.                                                      *)
(***************************************************************************)
EXTENDS Preparation, TLC

OnePage == 2 :> "page" @@ 3 :> "page" @@ 4 :> "page"
PageBytesOf == 2 :> "a" @@ 3 :> "b" @@ 4 :> "a"
PageCut == 2 :> 2 @@ 3 :> 1 @@ 4 :> 0

ThreePages == 1 :> "guide" @@ 2 :> "page" @@ 3 :> "notes"
MCBytesOf == 1 :> "a" @@ 2 :> "a" @@ 3 :> "b"
MCContentOf == MCBytesOf
MCNear == {<<1, 3>>, <<3, 1>>, <<2, 3>>, <<3, 2>>}
MCCut == 1 :> 2 @@ 2 :> 2 @@ 3 :> 1

AllSets == SUBSET Revision
AllManifests ==
    [leftOut : SUBSET Revision, refused : SUBSET Revision, chunks : 0..MaxChunks]

Line(s, r) == [source |-> s, revision |-> r]

(* Releases that give the page in one version, in the other, in both, and  *)
(* in another source.                                                      *)
PageReleases == {<<Line("web", 3)>>, <<Line("web", 2), Line("web", 4)>>,
                 <<Line("web", 2), Line("web", 3)>>, <<Line("mirror", 3)>>}

OneRelease == {<<Line("web", 1), Line("web", 2), Line("web", 3)>>}

AnyVerdict == [r \in Revision |-> Outcome]
OneDoubtful == [r \in Revision |-> IF r = 3 THEN Outcome ELSE {"accepted"}]

Symmetric == Permutations(Preparer)
=============================================================================
