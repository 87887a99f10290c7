------------------------------- MODULE MCData -------------------------------
(***************************************************************************)
(* The path of the data for TLC: the engine that polls the variables, the  *)
(* storage of their values, the reports of them.  The three share no       *)
(* state, and one of them moves in a behaviour.                            *)
(***************************************************************************)
EXTENDS VarManage, Storage, Hjt212Pages

VARIABLE side    \* the component that moves

allVars == <<side, vvars, vars, pvars>>

U(d, s, o) == [dev |-> d, slave |-> s, op |-> o]
R(a, n) == [addr |-> a, size |-> n]

MCVars == 1..3
MCUnit == 1 :> U("com1", 1, 3) @@ 2 :> U("com1", 1, 3) @@ 3 :> U("com2", 1, 3)
MCPlaces == 1 :> {R(0, 2), R(2, 2)} @@ 2 :> {R(1, 3), R(2, 3), R(6, 2)} @@ 3 :> {R(0, 1)}

DataInit ==
  /\ side \in {"engine", "storage", "reports"}
  /\ VInit /\ Init /\ PInit
  /\ side # "engine" => list = [v \in Vars |-> Absent]
  /\ side # "reports" => ~real /\ ~sharp /\ nid \in [PVars -> {1}] /\ listed = {}

Engine(A)  == side = "engine" /\ A /\ UNCHANGED <<side, vars, pvars>>
Stores(A)  == side = "storage" /\ A /\ UNCHANGED <<side, vvars, pvars>>
Reports(A) == side = "reports" /\ A /\ UNCHANGED <<side, vvars, vars>>

DataNext == Engine(VNext) \/ Stores(Next) \/ Reports(PNext)

\* The fairness of VSpec, FairSpec and PSpec.  As side never changes, fairness
\* of a disjunction over the sides is that of each of them.
DataSpec ==
  /\ DataInit /\ [][DataNext]_allVars
  /\ \A d \in Devs : WF_allVars(Engine(Task(d)) \/ Stores(ThreadStep) \/ Reports(PTask))
  /\ \A d \in Devs : WF_allVars(Engine(Elapse(d)) \/ Stores(CommitStep) \/ Reports(Turns))
  /\ WF_allVars(Engine(Search)) /\ SF_allVars(Stores(TimedCommit))
  /\ WF_web(WebGoesOn)
  /\ \A v \in PVars : WF_allVars(Reports(Elapses(v)))

\* Collected of the engine, while it is the engine that moves.
EngineCollects == side = "engine" => Collected
=============================================================================
