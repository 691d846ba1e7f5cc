---------------------------- MODULE ToolPromise ----------------------------
(***************************************************************************)
(* What the tools promise their callers.  A call that has started returns. *)
(* Unless it fails, it speaks of one text of its file: a text the file has *)
(* had, shown to tsgo once, and the same for every call about that file,   *)
(* however many run at once and however often the file is edited.          *)
(***************************************************************************)
EXTENDS Naturals

CONSTANTS Calls, Files, None

VARIABLES
    status,   \* of a call: "idle", "running", "returned"
    about,    \* the file it is about
    outcome,  \* how it returned, and the text it speaks of
    shown,    \* the text of each file that tsgo was shown
    disk      \* the text of each file on disk; 0: no such file

vars == <<status, about, outcome, shown, disk>>

NoOutcome == [how |-> "none", text |-> None]

Init ==
    /\ status = [c \in Calls |-> "idle"] /\ about = [c \in Calls |-> None]
    /\ outcome = [c \in Calls |-> NoOutcome]
    /\ shown = [f \in Files |-> None]
    /\ disk \in [Files -> {0, 1}]

Start(c, f) ==
    /\ status[c] = "idle"
    /\ status' = [status EXCEPT ![c] = "running"]
    /\ about' = [about EXCEPT ![c] = f]
    /\ UNCHANGED <<outcome, shown, disk>>

Show(f, text) ==
    /\ shown[f] = None
    /\ text \in 1..disk[f]
    /\ shown' = [shown EXCEPT ![f] = text]
    /\ UNCHANGED <<status, about, outcome, disk>>

Edit(f) ==
    /\ disk' = [disk EXCEPT ![f] = @ + 1]
    /\ UNCHANGED <<status, about, outcome, shown>>

Return(c, how) ==
    /\ status[c] = "running"
    /\ how # "error" => shown[about[c]] # None
    /\ status' = [status EXCEPT ![c] = "returned"]
    /\ outcome' = [outcome EXCEPT ![c] =
           [how |-> how, text |-> IF how = "error" THEN None ELSE shown[about[c]]]]
    /\ UNCHANGED <<about, shown, disk>>

Next == \/ \E c \in Calls : \/ \E f \in Files : Start(c, f)
                            \/ \E how \in {"error", "empty", "found"} : Return(c, how)
        \/ \E f \in Files : Edit(f) \/ \E text \in 1..disk[f] : Show(f, text)

Spec == Init /\ [][Next]_vars
=============================================================================
