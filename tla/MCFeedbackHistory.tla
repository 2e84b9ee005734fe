--------------------------- MODULE MCFeedbackHistory ---------------------------
(* Instances of FeedbackHistory for TLC.                                        *)
EXTENDS FeedbackHistory

CONSTANTS b1, b2

F(f, l) == [fingerprint |-> f, line |-> l]

\* Reports of files in which a title may be new, gone, moved, or reported twice, and
\* whose findings compete for the room of the tracker with those of another file.
Titles == [spooling |-> FALSE, edits |-> 1,
           reports |-> (1 :> {<<>>, <<F(1, 1)>>, <<F(2, 2)>>, <<F(1, 1), F(1, 2)>>}
                        @@ 2 :> {<<>>, <<F(1, 1), F(1, 2)>>} @@ 3 :> {<<F(1, 1)>>})]

\* Reports at one of two lines of a file, published with those of another file.
Rounds == [spooling |-> TRUE, edits |-> 1,
           reports |-> (1 :> {<<F(1, 1)>>, <<F(1, 2)>>}
                        @@ 2 :> {<<F(1, 1)>>} @@ 3 :> {})]

BothSetups == {Titles, Rounds}

\* Nothing distinguishes the contents of files.
DigestSymmetry == Permutations(Digests)

===============================================================================
