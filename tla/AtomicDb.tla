------------------------------- MODULE AtomicDb -------------------------------
(***************************************************************************)
(* What the build database promises to a parallel build: each wrapped      *)
(* command updates it once, in one step, on the state the previous command *)
(* left, before the command itself runs.  A wrapper that dies between its  *)
(* update and its command may lose the database, entirely or by leaving it *)
(* unreadable; a wrapper that dies before its update changes nothing.      *)
(***************************************************************************)
CONSTANTS Wrapper, Update(_, _, _), Tool(_, _), EmptyDb, Garbage, InitFs

VARIABLES
    db,       \* [intact, db]: is the file readable, and what it holds
    fs,       \* the files of the build
    applied,  \* the commands whose update took effect
    ran,      \* the commands whose tool ran
    dead      \* the wrappers that were killed or failed

vars == <<db, fs, applied, ran, dead>>

Intact(d) == [intact |-> TRUE, db |-> d]

Init ==
    /\ db = Intact(EmptyDb) /\ fs = InitFs
    /\ applied = {} /\ ran = {} /\ dead = {}

Apply(p) ==
    /\ p \notin applied \union dead /\ db.intact
    /\ db' = Intact(Update(p, fs, db.db))
    /\ applied' = applied \union {p}
    /\ UNCHANGED <<fs, ran, dead>>

Run(p) ==
    /\ p \in applied \ ran
    /\ fs' = Tool(p, fs)
    /\ ran' = ran \union {p}
    /\ UNCHANGED <<db, applied, dead>>

Die(p) ==
    /\ p \notin ran \union dead
    /\ dead' = dead \union {p}
    /\ applied' = applied \ {p}
    /\ \/ db' = db
       \/ p \in applied /\ db' \in {Intact(EmptyDb), [intact |-> FALSE, db |-> Garbage]}
    /\ UNCHANGED <<fs, ran>>

Next == \E p \in Wrapper : Apply(p) \/ Run(p) \/ Die(p)

Spec == Init /\ [][Next]_vars
===============================================================================
