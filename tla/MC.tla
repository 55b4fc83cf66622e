--------------------------------- MODULE MC ---------------------------------
(***************************************************************************)
(* Values of the constants for the TLC configurations.                     *)
(***************************************************************************)
EXTENDS Invariants, Refinement, TLC

CONSTANTS owner, other, r1, r2, r3, w1, w2

Users == {owner, other}
OneUser == {owner}

\* Photos stored before the run.
Row(status) == [owner |-> owner, caption |-> "old", status |-> status,
                attempts |-> IF status = "ready" THEN 1 ELSE 0]
NoSeeds       == <<>>
PendingSeed   == <<[row |-> Row("pending"), image |-> "good"]>>
TruncatedSeed == <<[row |-> Row("pending"), image |-> "truncated"]>>
ReadySeed     == <<[row |-> Row("ready"), image |-> "good"]>>

NoFlags == {}
OneFlag == {<<1, owner>>}

\* Calls.
On(op, user) == [op |-> op, user |-> user, photo |-> 1]
Get    == On("get", owner)
Delete == On("delete", owner)
Flag   == On("flag", owner)
Patch  == [op |-> "patch", user |-> owner, photo |-> 1, caption |-> "new"]
Decide(decision) == [op |-> decision, flag |-> <<1, owner>>]
Upload(image) == [op |-> "upload", user |-> owner, caption |-> "old",
                  image |-> image]

DecisionCalls == {Upload("good"), Get, Delete, Flag, Decide("dismiss"), Decide("action")}
DeletionCalls == {Flag, Delete, Decide("action")}
PhotoCalls    == {Upload(i) : i \in {"good", "truncated", "junk", "too_large"}}
                   \cup {On("thumb", owner), On("file", owner),
                         On("thumb_file", owner), On("get", other),
                         Get, Patch, Delete, Decide("action")}
JobCalls      == {Delete, Decide("dismiss")}
GetPatchCalls == {Get, Patch}
DecideCalls   == {Decide("dismiss"), Decide("action")}
RemovalCalls  == {Delete, Decide("action")}
GetActionCalls == {Get, Decide("action")}
DismissCalls  == {Decide("dismiss")}
GetCalls      == {Get}

\* Fault budgets.
Faults(kinds) == [k \in Fault |-> IF k \in kinds THEN 1 ELSE 0]
NoFaults       == Faults({})
ApiCrashFault  == Faults({"api_crash"})
CacheFault     == Faults({"cache"})
DbFault        == Faults({"db"})
MailDirFault   == Faults({"maildir"})
DecisionFaults == Faults({"api_crash", "db", "disk", "rmtree", "broker"})
PhotoFaults    == Faults({"disk", "broker", "api_crash", "cache", "worker_crash"})
JobFaults      == [Faults({"worker_crash", "redeliver", "db", "broker", "maildir"})
                     EXCEPT !["disk"] = 2, !["mail"] = 2]

Symmetry == Permutations(Request) \cup Permutations(Worker)
=============================================================================
