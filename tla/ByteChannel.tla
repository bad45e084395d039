---------------------------- MODULE ByteChannel ----------------------------
(***************************************************************************)
(* What one byte stream promises its two applications: the reader gets a   *)
(* prefix of what the writer wrote, hears of the end only when it has got  *)
(* everything that a writer wrote before it ended, and either side may     *)
(* break the stream at any time.                                           *)
(***************************************************************************)
EXTENDS Naturals

CONSTANT Items      \* what the writer may write, in this order: 1..Items

VARIABLES
    writer,     \* "open", "ended" or "broken"
    wrote,      \* how many of the items have been written
    reader,     \* "open", "ended" or "broken"
    got         \* how many of them have been read

chan == <<writer, wrote, reader, got>>

Init == writer = "open" /\ wrote = 0 /\ reader = "open" /\ got = 0

Write ==
    /\ writer = "open" /\ wrote < Items
    /\ wrote' = wrote + 1
    /\ UNCHANGED <<writer, reader, got>>

End == writer = "open" /\ writer' = "ended" /\ UNCHANGED <<wrote, reader, got>>

Read ==
    /\ reader = "open" /\ got < wrote
    /\ got' = got + 1
    /\ UNCHANGED <<writer, wrote, reader>>

ReadEnd ==
    /\ reader = "open" /\ writer = "ended" /\ got = wrote
    /\ reader' = "ended"
    /\ UNCHANGED <<writer, wrote, got>>

Break ==
    /\ writer' \in {writer, "broken"} /\ (writer = "ended" => writer' = writer)
    /\ reader' \in {reader, "broken"} /\ (reader = "ended" => reader' = reader)
    /\ UNCHANGED <<wrote, got>>

Next == Write \/ End \/ Read \/ ReadEnd \/ Break

Spec == Init /\ [][Next]_chan
=============================================================================
