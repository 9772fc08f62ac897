------------------------------- MODULE AuditLog -------------------------------
(***************************************************************************)
(* What the audit log promises its writers, whatever the database: each    *)
(* asks for one entry, and the entry is either written at the end of the   *)
(* chain in one indivisible step, numbered and linked, or not at all.      *)
(***************************************************************************)
EXTENDS Integers, Sequences

CONSTANT Writers

VARIABLES
    entries,   \* the log: [seq, prev, hash]
    open,      \* the request each writer has open, 0 if none
    asked      \* requests made; an entry's hash is the number of its request

vars == <<entries, open, asked>>

Init ==
    /\ entries = <<>>
    /\ open = [w \in Writers |-> 0]
    /\ asked = 0

Ask(w) ==
    /\ open[w] = 0
    /\ asked' = asked + 1
    /\ open' = [open EXCEPT ![w] = asked + 1]
    /\ UNCHANGED entries

Tip == IF entries = <<>> THEN 0 ELSE entries[Len(entries)].hash

Write(w) ==
    /\ open[w] # 0
    /\ entries' = Append(entries, [seq |-> Len(entries) + 1, prev |-> Tip, hash |-> open[w]])
    /\ open' = [open EXCEPT ![w] = 0]
    /\ UNCHANGED asked

\* The request fails: nothing of it is seen.
Refuse(w) ==
    /\ open[w] # 0
    /\ open' = [open EXCEPT ![w] = 0]
    /\ UNCHANGED <<entries, asked>>

Next == \E w \in Writers : Ask(w) \/ Write(w) \/ Refuse(w)

Spec == Init /\ [][Next]_vars
=============================================================================
