--------------------------- MODULE SchedulerLeader ---------------------------
(***************************************************************************)
(* Leader election of the schedulers over one row: SchedulerLeaderService. *)
(* Every operation is a transaction that reads the row and then writes     *)
(* what it decided on; nothing compares the version it read, so another    *)
(* process can write between the two.                                      *)
(***************************************************************************)
EXTENDS Integers

CONSTANTS
    Processes,
    Timeout,        \* heartbeat_timeout_seconds
    NoLeaderRow, Nobody   \* no row yet; the cleared leader_id

ASSUME LeaderAssumption ==
    /\ Timeout \in Nat /\ Nobody \notin Processes
    /\ NoLeaderRow \notin [leader: Processes \cup {Nobody}, age: 0 .. Timeout + 1]

VARIABLES
    alive,          \* processes that run; leader_id is new in every process
    leaderRow,      \* leader_id and the age of heartbeat_at, up to Timeout + 1
    doing,          \* per process: operation and the row it read
    believes        \* what try_claim or heartbeat last returned

leaderVars == <<alive, leaderRow, doing, believes>>

LeaderInit ==
    /\ alive = Processes
    /\ leaderRow = NoLeaderRow
    /\ doing = [p \in Processes |-> [op |-> "none", read |-> NoLeaderRow]]
    /\ believes = [p \in Processes |-> FALSE]

Stale(row) == row.age > Timeout

\* The first half of an operation.
Read(p, op) ==
    /\ p \in alive /\ doing[p].op = "none"
    /\ doing' = [doing EXCEPT ![p] = [op |-> op, read |-> leaderRow]]
    /\ UNCHANGED <<alive, leaderRow, believes>>

Done(p, answer) ==
    /\ doing' = [doing EXCEPT ![p] = [op |-> "none", read |-> NoLeaderRow]]
    /\ believes' = [believes EXCEPT ![p] = answer]

\* try_claim: insert (the primary key refuses a second one), heartbeat of the
\* leader, takeover of a stale row, or nothing.
TryClaim(p) ==
    LET read == doing[p].read
    IN  /\ p \in alive /\ doing[p].op = "claim"
        /\ IF read = NoLeaderRow
           THEN /\ leaderRow' = IF leaderRow = NoLeaderRow THEN [leader |-> p, age |-> 0] ELSE leaderRow
                /\ Done(p, leaderRow = NoLeaderRow)
           ELSE IF read.leader = p
           THEN leaderRow' = [leaderRow EXCEPT !.age = 0] /\ Done(p, TRUE)
           ELSE IF Stale(read)
           THEN leaderRow' = [leader |-> p, age |-> 0] /\ Done(p, TRUE)
           ELSE UNCHANGED leaderRow /\ Done(p, FALSE)
        /\ UNCHANGED alive

\* Mutant: a leader that comes late with its heartbeat takes itself for deposed.
Heartbeat_Late(p) ==
    LET leads == doing[p].read # NoLeaderRow /\ doing[p].read.leader = p
    IN  /\ p \in alive /\ doing[p].op = "heartbeat"
        /\ leaderRow' = IF leads THEN [leaderRow EXCEPT !.age = 0] ELSE leaderRow
        /\ Done(p, leads /\ ~Stale(doing[p].read))
        /\ UNCHANGED alive

\* heartbeat: only the heartbeat column is written, whoever leads by then.
Heartbeat(p) ==
    LET leads == doing[p].read # NoLeaderRow /\ doing[p].read.leader = p
    IN  /\ p \in alive /\ doing[p].op = "heartbeat"
        /\ leaderRow' = IF leads THEN [leaderRow EXCEPT !.age = 0] ELSE leaderRow
        /\ Done(p, leads)
        /\ UNCHANGED alive

\* release, on the way out.
ReleaseLeadership(p) ==
    LET leads == doing[p].read # NoLeaderRow /\ doing[p].read.leader = p
    IN  /\ p \in alive /\ doing[p].op = "release"
        /\ leaderRow' = IF leads THEN [leader |-> Nobody, age |-> 0] ELSE leaderRow
        /\ alive' = alive \ {p}
        /\ Done(p, FALSE)

Dies(p) ==
    /\ p \in alive
    /\ alive' = alive \ {p}
    /\ Done(p, FALSE)
    /\ UNCHANGED leaderRow

LeaderTime ==
    /\ leaderRow # NoLeaderRow /\ leaderRow.age <= Timeout
    /\ leaderRow' = [leaderRow EXCEPT !.age = @ + 1]
    /\ UNCHANGED <<alive, doing, believes>>

Finish(p) == TryClaim(p) \/ Heartbeat(p) \/ ReleaseLeadership(p)

LeaderNext ==
    \/ \E p \in Processes : Finish(p) \/ Dies(p) \/ \E op \in {"claim", "heartbeat", "release"} : Read(p, op)
    \/ LeaderTime

LeaderSpec == LeaderInit /\ [][LeaderNext]_leaderVars

-----------------------------------------------------------------------------
\* The live process that the row names knows that it leads: try_claim or
\* heartbeat last told it so, whatever operations overlap.  (The converse fails:
\* a process that was displaced learns it with its next operation.)
LeaderKnows == leaderRow # NoLeaderRow /\ leaderRow.leader \in alive => believes[leaderRow.leader]
=============================================================================
