----------------------------- MODULE MCServices -----------------------------
(***************************************************************************)
(* The services around jobs, one instance each.  They share no variable,   *)
(* so a behaviour is one of a single service: which one is chosen at the   *)
(* start, and the others rest.                                             *)
(***************************************************************************)
EXTENDS Sessions, DatasetIntake, JobLogFeed, PackageStore, ReleaseGate, TLC

CONSTANTS
  s1, s2, l1, l2, k1, k2, b1, o1, o2,              \* Sessions
  f1, f2, f3, g1, x1, x2, u1, u2, v1, v2,          \* DatasetIntake
  out, err, exe,                                   \* JobLogFeed
  c1, c2, c3, c4, reg, onnxA, onnxB, onnxC,        \* PackageStore
  m1, m2, q1, q2                                   \* ReleaseGate

VARIABLE service   \* the service of this behaviour

allVars == <<service, sessionVars, intakeVars, logVars, packageVars, releaseVars>>

-----------------------------------------------------------------------------
(* Both logins are threads of one process; the other only competes for the bootstrap. *)

MCHome == [l \in Logins |-> s1]
SessionLoad(n, k, T, B, O) ==
  [logins |-> n, stops |-> k, tokens |-> T, bearers |-> B, operators |-> O]
MCWorkloads == {SessionLoad(5, 0, {}, {}, {}),
                SessionLoad(2, 0, {k1, k2}, {}, {o1, o2}),
                SessionLoad(1, 1, {k1}, {b1}, {o1})}

-----------------------------------------------------------------------------
(* Fetches of one version by two threads and by a process of another id; g1 names the *)
(* version v2 and the file of v1; x1 is a legacy request, x2 a training configuration; *)
(* uploads write the file of v1.                                                       *)

MCKind == (f1 :> "fetch") @@ (f2 :> "fetch") @@ (f3 :> "fetch") @@ (g1 :> "reference")
          @@ (x1 :> "legacy") @@ (x2 :> "training")
MCVersion  == [r \in Requests |-> IF r = g1 THEN v2 ELSE v1]
MCPath     == [r \in Requests |-> v1]
MCPid      == [r \in Requests |-> IF r = f3 THEN 2 ELSE 1]
MCTarget   == [u \in Uploads |-> v1]
MCGroups   == {{f1, f2, f3}, {f1, f2, x2}, {f1, x1, u1}, {f1, g1, u1}, {f1, f2, u1},
               {g1, x2, u1, u2}}

-----------------------------------------------------------------------------
(* Four lines, two of one stream, and pages of two. *)

MCEmits == [t \in Pumps \cup {Executor} |-> IF t = out THEN 2 ELSE 1]

-----------------------------------------------------------------------------
(* c1 and c3 package the same model, c2 another with more labels, c4 a third of the same *)
(* size and time as that, with a card of the first.                                      *)

CallWith(onnx, names, kind, named, o, p) ==
  [content |-> onnx, labels |-> names, labelled |-> TRUE, card |-> kind, digest |-> named,
   defects |-> {}, examples |-> TRUE, overwrite |-> o, process |-> p]
MCRecipe == (c1 :> CallWith(onnxA, {"person"}, "data", NoDigest, FALSE, 1))
            @@ (c2 :> CallWith(onnxB, {"person", "car"}, "given", onnxB, TRUE, 1))
            @@ (c3 :> CallWith(onnxA, {"person"}, "default", NoDigest, TRUE, 2))
            @@ (c4 :> CallWith(onnxC, {"person"}, "given", onnxA, TRUE, 2))
MCAsks == reg :> [hash |-> TRUE, sidecars |-> TRUE, examples |-> TRUE, provenance |-> FALSE,
                  register |-> TRUE, process |-> 1]
MCPlans == {[creators |-> {c1, c2}, overlap |-> TRUE, breaks |-> 1],
            [creators |-> {c1, c2, c3}, overlap |-> FALSE, breaks |-> 2],
            [creators |-> {c2, c3, c4}, overlap |-> FALSE, breaks |-> 1]}
MCSignature == (onnxA :> 1) @@ (onnxB :> 2) @@ (onnxC :> 2)

-----------------------------------------------------------------------------
(* Two requests for one model at once, while a file changes or the model is registered *)
(* again; one after another for a model and its target.                               *)

Scope(M, Q, w, a, e) ==
  [models |-> M, clerks |-> Q, rewrites |-> w, approvals |-> a, entries |-> e, rollouts |-> 1]
MCScopes == {Scope({m1}, {q1, q2}, 1, 1, 1), Scope({m1}, {q1, q2}, 0, 1, 2),
             Scope({m1, m2}, {q1}, 0, 2, 2)}

-----------------------------------------------------------------------------

ServicesInit ==
  /\ service \in {"sessions", "intake", "logs", "packages", "releases"}
  /\ SessionInit
  /\ IntakeInit
  /\ JobLogInit
  /\ PackageInit
  /\ ReleaseInit
  \* One start is enough for a service that rests.
  /\ service # "sessions" => load  = CHOOSE w \in Workloads : TRUE
  /\ service # "intake"   => group = CHOOSE g \in Groups : TRUE
  /\ service # "logs"     => store = "file"
  /\ service # "packages" => plan  = CHOOSE p \in Plans : TRUE
  /\ service # "releases" => /\ scope = Scope({m1}, {q1, q2}, 1, 1, 1)
                             /\ grade[m1] = "none"
                             /\ decision.valid

ServicesNext ==
  \/ /\ service = "sessions"
     /\ SessionNext
     /\ UNCHANGED <<service, intakeVars, logVars, packageVars, releaseVars>>
  \/ /\ service = "intake"
     /\ IntakeNext
     /\ UNCHANGED <<service, sessionVars, logVars, packageVars, releaseVars>>
  \/ /\ service = "logs"
     /\ JobLogNext
     /\ UNCHANGED <<service, sessionVars, intakeVars, packageVars, releaseVars>>
  \/ /\ service = "packages"
     /\ PackageNext
     /\ UNCHANGED <<service, sessionVars, intakeVars, logVars, releaseVars>>
  \/ /\ service = "releases"
     /\ ReleaseNext
     /\ UNCHANGED <<service, sessionVars, intakeVars, logVars, packageVars>>

ServicesSpec == ServicesInit /\ [][ServicesNext]_allVars

\* Every variable of every service keeps its type.
ServicesTypeOK == SessionTypeOK /\ IntakeTypeOK /\ JobLogTypeOK /\ PackageTypeOK /\ ReleaseTypeOK
=============================================================================
