----------------------------- MODULE MCLiveEvaluation -----------------------------
(* Instances of LiveEvaluation for TLC.                                          *)
EXTENDS LiveEvaluation

CONSTANTS c, d, f, g, h

\* A case of two files and a case of one.
TwoFilesAndOne == [x \in {c, d} |-> IF x = c THEN <<f, g>> ELSE <<h>>]

CommandLine(cases, attempts, challenge, delay, plan, cap) ==
    [cases |-> cases, attempts |-> attempts, challenge |-> challenge,
     delay |-> delay, plan |-> plan, cap |-> cap]

\* Without a plan and with either; the files of a case together, nearly together
\* and apart; a suite that its cap pays for and one that it does not; attempts that
\* the plan does not have.
TypicalCommandLines ==
    {CommandLine(<<c, d>>, 1, FALSE, "spread", "none", 0),
     CommandLine(<<d>>, 2, FALSE, "near", "none", 0),
     CommandLine(<<c, d>>, 1, FALSE, "short", "ordinary", 2),
     CommandLine(<<c, d>>, 1, FALSE, "near", "ordinary", 0),
     CommandLine(<<c>>, 2, TRUE, "short", "challenge", 2),
     CommandLine(<<c>>, 2, TRUE, "short", "challenge", 1),
     CommandLine(<<c>>, 2, TRUE, "spread", "challenge", 2),
     CommandLine(<<d>>, 2, TRUE, "spread", "challenge", 2),
     CommandLine(<<c>>, 1, TRUE, "short", "challenge", 1),
     CommandLine(<<c>>, 2, TRUE, "short", "ordinary", 2)}

\* A challenge whose delays are near the debounce.
NearCommandLines == {CommandLine(<<c>>, 2, TRUE, "near", "challenge", 2)}
=============================================================================
