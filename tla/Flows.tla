-------------------------------- MODULE Flows --------------------------------
(***************************************************************************)
(* Flows: what MOPSA's transfer functions consume and produce              *)
(* (framework/core/flow.ml and token.ml).  A flow maps control tokens to   *)
(* abstract environments and carries the report of the alarms found so     *)
(* far.  A token that the map does not bind is at bottom, and `set`        *)
(* removes the binding of a token that becomes bottom, so a total          *)
(* function over Token represents the map faithfully.  TokenMap.TOP is     *)
(* left out: no iterator modelled here builds it.                          *)
(*                                                                         *)
(* The environments are a parameter: any lattice that satisfies what       *)
(* framework/core/lattice.ml asks of its operators.  Gamma, the            *)
(* concretisation, is not in the code; it gives `subset`, `join` and       *)
(* `widen` the meaning their comments state.                               *)
(***************************************************************************)
EXTENDS FiniteSets, Naturals

CONSTANTS
    Env,            \* abstract environments, the 'a of 'a flow
    Bottom,         \* lattice.bottom
    EnvLeq(_, _),   \* lattice.subset
    EnvJoin(_, _),  \* lattice.join
    EnvWiden(_, _), \* lattice.widen
    State,          \* concrete program states
    Gamma(_),       \* the set of states an environment stands for
    Token,          \* control tokens
    Alarm           \* alarms a report may hold

ASSUME LatticeAssumption ==
    /\ Bottom \in Env /\ Gamma(Bottom) = {}
    /\ \A a \in Env : Gamma(a) \subseteq State
    /\ \A a, b \in Env :
         /\ EnvLeq(a, b) \in BOOLEAN
         /\ EnvLeq(a, b) => Gamma(a) \subseteq Gamma(b)
         /\ EnvJoin(a, b) \in Env
         /\ Gamma(a) \subseteq Gamma(EnvJoin(a, b))
         /\ Gamma(b) \subseteq Gamma(EnvJoin(a, b))
         /\ EnvWiden(a, b) \in Env
         /\ Gamma(a) \subseteq Gamma(EnvWiden(a, b))
         /\ Gamma(b) \subseteq Gamma(EnvWiden(a, b))

Flow == [tmap : [Token -> Env], report : SUBSET Alarm]

\* Flow.bottom: nothing reachable, the given report.
BottomFlow(report) == [tmap |-> [tk \in Token |-> Bottom], report |-> report]

Subset(f, g) == \A tk \in Token : EnvLeq(f.tmap[tk], g.tmap[tk])

Join(f, g) ==
    [tmap   |-> [tk \in Token |-> EnvJoin(f.tmap[tk], g.tmap[tk])],
     report |-> f.report \union g.report]

Widen(f, g) ==
    [tmap   |-> [tk \in Token |-> EnvWiden(f.tmap[tk], g.tmap[tk])],
     report |-> f.report \union g.report]

Set(tk, e, f) == [tmap |-> [f.tmap EXCEPT ![tk] = e], report |-> f.report]

Add(tk, e, f) == Set(tk, EnvJoin(e, f.tmap[tk]), f)

Remove(tks, f) ==
    [tmap   |-> [tk \in Token |-> IF tk \in tks THEN Bottom ELSE f.tmap[tk]],
     report |-> f.report]

SetReport(report, f) == [tmap |-> f.tmap, report |-> report]
===============================================================================
