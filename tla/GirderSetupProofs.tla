------------------------- MODULE GirderSetupProofs -------------------------
(***************************************************************************)
(* Theorems about GirderSetup, for any runs and bounds.                     *)
(***************************************************************************)
EXTENDS GirderSetup, TLAPS

Places == {"admin", "assetstore", "plugins", "restart", "settings", "recipe", "image", "build",
           "idle", "wait", "rewait", "ended"}
RunStates == [pc : Places, env : BOOLEAN, connErrCount : 0..ConnErrLimit,
              result : {"none", "ok", "failed"}]

(* What the run that has got past CreateAdmin has made, by where it is; it  *)
(* may have made an assetstore besides.                                     *)
Made == [assetstore |-> {"admin"}, plugins |-> {"admin"},
         restart |-> {"admin", "plugins"}, rewait |-> {"admin", "plugins"},
         settings |-> {"admin", "plugins"}, recipe |-> {"admin", "plugins", "settings"},
         image |-> {"admin", "plugins", "settings", "recipe"},
         build |-> {"admin", "plugins", "settings", "recipe", "image"}]
Past == {"assetstore", "plugins", "restart", "rewait", "settings", "recipe", "image", "build"}
Late == {"settings", "recipe", "image", "build"}
Checked == Things \ {"assetstore"}

(* Girder is empty, or belongs to one run. *)
Sole ==
    /\ \/ owner = {} /\ \A x \in Things : db[x] = 0
       \/ db["admin"] = 1 /\ \E r \in Runs : owner = {r}
    /\ \A x \in Things : db[x] \in {0, 1}

(* A run past CreateAdmin is that one, and its place tells what is there. *)
Placed(r) ==
    LET t == run[r]
    IN  /\ t.pc \in Past => /\ owner = {r}
                            /\ \A x \in Checked : db[x] = IF x \in Made[t.pc] THEN 1 ELSE 0
        /\ t.pc = "assetstore" => db["assetstore"] = 0
        /\ t.result = "ok" => owner = {r} /\ \A x \in Checked : db[x] = 1
        /\ t.pc \in Late /\ server.up => server.loaded

SetupInv == TypeOK /\ Sole /\ \A r \in Runs : Placed(r)

LEMMA PlacesOf == DOMAIN NextOf \cup {"idle", "wait", "rewait", "ended"} = Places
BY DEF NextOf, Places

LEMMA RunTyped ==
    ASSUME TypeOK, NEW r \in Runs
    PROVE  run[r] \in RunStates /\ (run[r].pc = "ended" <=> run[r].result # "none")
BY PlacesOf DEF TypeOK, RunStates

LEMMA BudgetTyped ==
    ASSUME TypeOK, UNCHANGED budget \/ \E k \in Kinds : Spend(k)
    PROVE  budget' \in [stop : 0..MaxStops, fault : 0..MaxFaults, kill : 0..MaxKills]
<1>1. MaxStops \in Nat /\ MaxFaults \in Nat /\ MaxKills \in Nat
  BY ConstantsOK DEF Kinds, Limit
<1>2. QED
  BY <1>1 DEF TypeOK, Spend, Kinds

(* The types after a step of run r. *)
LEMMA StepTyped ==
    ASSUME TypeOK, NEW r \in Runs, NEW t \in RunStates, Becomes(r, t),
           t.pc = "ended" <=> t.result # "none",
           server' \in [up : BOOLEAN, loaded : BOOLEAN, restarting : BOOLEAN],
           db' \in [Things -> Nat], owner' \subseteq Runs,
           UNCHANGED budget \/ \E k \in Kinds : Spend(k)
    PROVE  /\ TypeOK' /\ run'[r] = t
           /\ \A q \in Runs \ {r} : run'[q] = run[q]
<1>1. run' \in [Runs -> RunStates] /\ run'[r] = t /\ \A q \in Runs \ {r} : run'[q] = run[q]
  BY PlacesOf DEF TypeOK, Becomes, RunStates
<1>2. \A q \in Runs : run'[q].pc = "ended" <=> run'[q].result # "none"
  BY <1>1 DEF TypeOK
<1>3. QED
  BY <1>1, <1>2, BudgetTyped, PlacesOf DEF TypeOK, RunStates

(* A run that does not move keeps its place when only Girder's process      *)
(* changes, and not to one without its plugins, or when Girder belongs to   *)
(* another run.                                                             *)
LEMMA OthersPlaced ==
    ASSUME NEW q \in Runs, Placed(q), run'[q] = run[q],
           \/ /\ UNCHANGED <<db, owner>>
              /\ \/ server'.up => server'.loaded
                 \/ server'.up = server.up /\ server'.loaded = server.loaded
           \/ owner # {q}
    PROVE  Placed(q)'
BY DEF Placed, Past, Late

LEMMA FailedTyped ==
    ASSUME NEW t \in RunStates
    PROVE  /\ Failed(t) \in RunStates /\ Failed(t).pc = "ended" /\ Failed(t).result = "failed"
BY DEF Failed, RunStates, Places

LEMMA FailedPlaced ==
    ASSUME NEW r \in Runs, run'[r].pc = "ended", run'[r].result = "failed" PROVE Placed(r)'
BY DEF Placed, Past, Late

(* A run that goes from one place to another, before and after which it is  *)
(* not finished and nothing else has changed.                               *)
LEMMA DoneTyped ==
    ASSUME NEW t \in RunStates, t.result = "none", NEW x \in DOMAIN NextOf
    PROVE  /\ Done(t, x) \in RunStates /\ Done(t, x).pc = NextOf[x]
           /\ Done(t, x).result = IF x = "build" THEN "ok" ELSE "none"
           /\ NextOf[x] = "ended" <=> x = "build"
<1>1. NextOf[x] \in Places /\ (NextOf[x] = "ended" <=> x = "build")
  BY DEF NextOf, Places
<1>2. QED
  BY <1>1 DEF Done, RunStates

(* A call either has its effect, and the run goes on or fails, or has none  *)
(* and the run fails.                                                       *)
LEMMA CallCases ==
    ASSUME NEW r, NEW x, NEW done, NEW failed, Call(r, x, done, failed)
    PROVE  /\ UNCHANGED budget \/ \E k \in Kinds : Spend(k)
           /\ \/ /\ server.up /\ Accepts(x) /\ Effect(r, x)
                 /\ Becomes(r, done) \/ Becomes(r, failed)
              \/ UNCHANGED <<server, db, owner>> /\ Becomes(r, failed)
BY DEF Call, Answered, Refused, Breaks, Kinds

LEMMA EffectTyped ==
    ASSUME TypeOK, NEW r \in Runs, NEW x \in DOMAIN NextOf, Effect(r, x)
    PROVE  /\ server' \in [up : BOOLEAN, loaded : BOOLEAN, restarting : BOOLEAN]
           /\ server'.up = server.up /\ server'.loaded = server.loaded
           /\ db' \in [Things -> Nat]
           /\ owner' = IF x = "admin" THEN owner \cup {r} ELSE owner
           /\ \A y \in Things \ {x} : db'[y] = db[y]
           /\ x # "restart" => x \in Things /\ db'[x] = IF x \in {"plugins", "settings"} THEN 1
                                                       ELSE db[x] + 1
           /\ x = "restart" => db' = db
<1>1. x \in Things \cup {"restart"} /\ "restart" \notin Things
  BY DEF NextOf, Things
<1>2. /\ server' \in [up : BOOLEAN, loaded : BOOLEAN, restarting : BOOLEAN]
      /\ server'.up = server.up /\ server'.loaded = server.loaded
  BY DEF TypeOK, Effect
<1>3. CASE x = "restart"
  BY <1>1, <1>2, <1>3 DEF TypeOK, Effect
<1>4. CASE x \in Things
  <2>1. db' = [db EXCEPT ![x] = IF x \in {"plugins", "settings"} THEN 1 ELSE db[x] + 1]
    BY <1>1, <1>4 DEF Effect
  <2>2. QED
    BY <1>1, <1>2, <1>4, <2>1 DEF TypeOK, Effect
<1>5. QED
  BY <1>1, <1>3, <1>4
------------------------------------------------------------------------------
LEMMA InitSetup == ASSUME Init PROVE SetupInv
<1>1. TypeOK
  <2>1. budget \in [stop : 0..MaxStops, fault : 0..MaxFaults, kill : 0..MaxKills]
    BY ConstantsOK DEF Init, Limit, Kinds
  <2>2. NewRun \in RunStates
    BY ConstantsOK DEF NewRun, RunStates, Places
  <2>3. QED
    BY <2>1, <2>2, PlacesOf DEF Init, TypeOK, RunStates, NewRun, Down
<1>2. Sole
  BY DEF Init, Sole, Things
<1>3. \A r \in Runs : Placed(r)
  BY DEF Init, Placed, NewRun, Past, Late
<1>4. QED
  BY <1>1, <1>2, <1>3 DEF SetupInv

(* A step that only moves run r, to a place before CreateAdmin or to the    *)
(* end.                                                                     *)
LEMMA MovesSetup ==
    ASSUME SetupInv, NEW r \in Runs, NEW t \in RunStates, Becomes(r, t),
           \/ t.pc \in {"wait", "admin"} /\ t.result = "none"
           \/ t.pc = "ended" /\ t.result = "failed",
           UNCHANGED <<server, db, owner>>,
           UNCHANGED budget \/ \E k \in Kinds : Spend(k)
    PROVE  SetupInv'
<1>1. /\ TypeOK' /\ run'[r] = t
      /\ \A q \in Runs \ {r} : run'[q] = run[q]
  <2>1. /\ server' \in [up : BOOLEAN, loaded : BOOLEAN, restarting : BOOLEAN]
        /\ db' \in [Things -> Nat] /\ owner' \subseteq Runs
    BY DEF SetupInv, TypeOK
  <2>2. QED
    BY <2>1, StepTyped DEF SetupInv
<1>2. Placed(r)'
  BY <1>1 DEF Placed, Past, Late
<1>3. \A q \in Runs \ {r} : Placed(q)'
  BY <1>1, OthersPlaced DEF SetupInv
<1>4. QED
  BY <1>1, <1>2, <1>3 DEF SetupInv, Sole

LEMMA FailsSetup ==
    ASSUME SetupInv, NEW r \in Runs, Becomes(r, Failed(run[r])),
           UNCHANGED <<server, db, owner>>,
           UNCHANGED budget \/ \E k \in Kinds : Spend(k)
    PROVE  SetupInv'
<1>1. run[r] \in RunStates
  BY RunTyped DEF SetupInv
<1>2. QED
  BY <1>1, FailedTyped, MovesSetup

LEMMA StartSetup == ASSUME SetupInv, NEW r \in Runs, Start(r) PROVE SetupInv'
<1>1. PICK e \in BOOLEAN : Becomes(r, [NewRun EXCEPT !.pc = "wait", !.env = e])
  BY DEF Start
<1> DEFINE t == [NewRun EXCEPT !.pc = "wait", !.env = e]
<1>2. t \in RunStates /\ t.pc = "wait" /\ t.result = "none"
  <2>1. NewRun \in RunStates /\ NewRun.result = "none"
    BY ConstantsOK DEF NewRun, RunStates, Places
  <2>2. QED
    BY <2>1 DEF RunStates, Places
<1>3. QED
  BY <1>1, <1>2, MovesSetup DEF Start

LEMMA WaitForGirderSetup == ASSUME SetupInv, NEW r \in Runs, WaitForGirder(r) PROVE SetupInv'
<1>1. /\ run[r] \in RunStates /\ run[r].pc = "wait" /\ run[r].result = "none"
      /\ UNCHANGED <<server, db, owner, budget>>
  BY RunTyped DEF SetupInv, WaitForGirder
<1>2. CASE Becomes(r, [run[r] EXCEPT !.pc = "admin"])
  <2>1. /\ [run[r] EXCEPT !.pc = "admin"] \in RunStates
        /\ [run[r] EXCEPT !.pc = "admin"].pc = "admin"
        /\ [run[r] EXCEPT !.pc = "admin"].result = "none"
    BY <1>1 DEF RunStates, Places
  <2>2. QED
    BY <1>1, <1>2, <2>1, MovesSetup
<1>3. CASE Becomes(r, Failed(run[r]))
  BY <1>1, <1>3, FailsSetup
<1>4. CASE /\ ~ run[r].connErrCount + 1 > ConnErrLimit
           /\ Becomes(r, [run[r] EXCEPT !.connErrCount = @ + 1])
  <2>1. /\ [run[r] EXCEPT !.connErrCount = @ + 1] \in RunStates
        /\ [run[r] EXCEPT !.connErrCount = @ + 1].pc = "wait"
        /\ [run[r] EXCEPT !.connErrCount = @ + 1].result = "none"
    BY <1>1, <1>4, ConstantsOK DEF RunStates, Places
  <2>2. QED
    BY <1>1, <1>4, <2>1, MovesSetup
<1>5. QED
  BY <1>2, <1>3, <1>4 DEF WaitForGirder

(* The run that finds no admin user becomes the owner, whether it hears of  *)
(* it or not.                                                               *)
LEMMA CreateAdminSetup == ASSUME SetupInv, NEW r \in Runs, CreateAdmin(r) PROVE SetupInv'
<1>1. /\ run[r] \in RunStates /\ run[r].pc = "admin" /\ run[r].result = "none"
      /\ "admin" \in DOMAIN NextOf
  BY RunTyped DEF SetupInv, CreateAdmin, NextOf
<1>2. Call(r, "admin", Done(run[r], "admin"), Failed(run[r]))
  BY DEF CreateAdmin
<1>3. UNCHANGED budget \/ \E k \in Kinds : Spend(k)
  BY <1>2, CallCases
<1>4. CASE UNCHANGED <<server, db, owner>> /\ Becomes(r, Failed(run[r]))
  BY <1>3, <1>4, FailsSetup
<1>5. CASE /\ Accepts("admin") /\ Effect(r, "admin")
           /\ Becomes(r, Done(run[r], "admin")) \/ Becomes(r, Failed(run[r]))
  <2>1. PICK t \in {Done(run[r], "admin"), Failed(run[r])} : Becomes(r, t)
    BY <1>5
  <2>2. /\ t \in RunStates
        /\ \/ t.pc = "assetstore" /\ t.result = "none"
           \/ t.pc = "ended" /\ t.result = "failed"
    BY <1>1, DoneTyped, FailedTyped DEF NextOf
  <2>3. owner = {} /\ \A x \in Things : db[x] = 0
    BY <1>5 DEF Accepts, SetupInv, Sole
  <2>4. /\ server' \in [up : BOOLEAN, loaded : BOOLEAN, restarting : BOOLEAN]
        /\ db' \in [Things -> Nat] /\ owner' = {r}
        /\ \A x \in Things : db'[x] = IF x = "admin" THEN 1 ELSE 0
    BY <1>1, <1>5, <2>3, EffectTyped DEF SetupInv
  <2>5. TypeOK' /\ run'[r] = t /\ \A q \in Runs \ {r} : run'[q] = run[q]
    BY <1>3, <2>1, <2>2, <2>4, StepTyped DEF SetupInv
  <2>6. Sole'
    BY <2>4 DEF Sole, Things
  <2>7. Placed(r)'
    BY <2>2, <2>4, <2>5 DEF Placed, Past, Late, Made, Checked, Things
  <2>8. \A q \in Runs \ {r} : Placed(q)'
    BY <2>3, <2>5, OthersPlaced DEF SetupInv
  <2>9. QED
    BY <2>5, <2>6, <2>7, <2>8 DEF SetupInv
<1>6. QED
  BY <1>2, <1>4, <1>5, CallCases

(* Any other call with an effect, of the owner of Girder. *)
LEMMA EffectSetup ==
    ASSUME SetupInv, NEW r \in Runs,
           NEW x \in {"assetstore", "plugins", "restart", "settings", "recipe", "image", "build"},
           run[r].pc = x, server.up, Accepts(x), Effect(r, x),
           Becomes(r, Done(run[r], x)) \/ Becomes(r, Failed(run[r])),
           UNCHANGED budget \/ \E k \in Kinds : Spend(k)
    PROVE  SetupInv'
<1>1. /\ run[r] \in RunStates /\ run[r].result = "none" /\ x \in DOMAIN NextOf /\ x \in Past
  BY RunTyped DEF SetupInv, NextOf, Past
<1>2. /\ owner = {r} /\ \A y \in Checked : db[y] = IF y \in Made[x] THEN 1 ELSE 0
  BY <1>1 DEF SetupInv, Placed
<1>3. PICK t \in {Done(run[r], x), Failed(run[r])} : Becomes(r, t)
  OBVIOUS
<1>4. /\ t \in RunStates
      /\ \/ t.pc = NextOf[x] /\ t.result = IF x = "build" THEN "ok" ELSE "none"
         \/ t.pc = "ended" /\ t.result = "failed"
      /\ t.pc = "ended" <=> t.result # "none"
  BY <1>1, DoneTyped, FailedTyped
<1>5. /\ server' \in [up : BOOLEAN, loaded : BOOLEAN, restarting : BOOLEAN]
      /\ server'.up = server.up /\ server'.loaded = server.loaded
      /\ db' \in [Things -> Nat] /\ owner' = {r}
  BY <1>1, <1>2, EffectTyped DEF SetupInv
<1>6. TypeOK' /\ run'[r] = t /\ \A q \in Runs \ {r} : run'[q] = run[q]
  BY <1>2, <1>3, <1>4, <1>5, StepTyped DEF SetupInv, TypeOK
<1>7. \A q \in Runs \ {r} : Placed(q)'
  BY <1>2, <1>6, OthersPlaced DEF SetupInv
<1>8. \A y \in Checked : db'[y] = IF y \in Made[x] \cup {x} THEN 1 ELSE 0
  <2>1. \A y \in Checked \ {x} : db'[y] = db[y]
    BY <1>1, EffectTyped DEF SetupInv, Checked
  <2>2. x \in Checked => x \notin Made[x] /\ db'[x] = 1
    <3>1. x \in Checked => x # "restart" /\ x \notin Made[x]
      BY DEF Checked, Things, Made
    <3>2. x \in Checked => db[x] = 0
      BY <1>2, <3>1
    <3>3. x # "restart" => db'[x] = IF x \in {"plugins", "settings"} THEN 1 ELSE db[x] + 1
      BY <1>1, EffectTyped DEF SetupInv
    <3>4. QED
      BY <3>1, <3>2, <3>3
  <2>3. QED
    BY <1>2, <2>1, <2>2
<1>9. db'["assetstore"] \in {0, 1}
  <2>1. db["assetstore"] \in {0, 1} /\ (x = "assetstore" => db["assetstore"] = 0)
    BY DEF SetupInv, Sole, Things, Accepts
  <2>2. CASE x = "assetstore"
    <3>1. db'[x] = db[x] + 1
      BY <1>1, <2>2, EffectTyped DEF SetupInv
    <3>2. QED
      BY <2>1, <2>2, <3>1
  <2>3. CASE x # "assetstore"
    BY <1>1, <2>1, <2>3, EffectTyped DEF SetupInv, Things
  <2>4. QED
    BY <2>2, <2>3
<1>10. Sole'
  <2>1. "admin" \in Checked /\ "admin" \in Made[x]
    BY DEF Checked, Things, Made
  <2>2. QED
    BY <1>5, <1>8, <1>9, <2>1 DEF Sole, Checked
<1>11. Placed(r)'
  <2>1. CASE t.pc = "ended" /\ t.result = "failed"
    BY <1>6, <2>1, FailedPlaced
  <2>2. CASE t.pc = NextOf[x] /\ x = "build" /\ t.result = "ok"
    <3>1. t.pc = "ended" /\ \A y \in Checked : y \in Made[x] \cup {x}
      BY <2>2 DEF NextOf, Made, Checked, Things
    <3>2. QED
      BY <1>5, <1>6, <1>8, <2>2, <3>1 DEF Placed, Past, Late
  <2>3. CASE t.pc = NextOf[x] /\ x # "build" /\ t.result = "none"
    <3>1. /\ t.pc \in Past \ {"assetstore"}
          /\ \A y \in Checked : y \in Made[t.pc] <=> y \in Made[x] \cup {x}
      BY <2>3 DEF NextOf, Made, Checked, Things, Past
    <3>2. t.pc \in Late => x \in Late
      BY <2>3 DEF NextOf, Late
    <3>3. x \in Late => server.loaded
      BY DEF SetupInv, Placed
    <3>4. QED
      BY <1>5, <1>6, <1>8, <2>3, <3>1, <3>2, <3>3 DEF Placed
  <2>4. QED
    BY <1>4, <2>1, <2>2, <2>3
<1>12. QED
  BY <1>6, <1>7, <1>10, <1>11 DEF SetupInv

LEMMA CallSetup ==
    ASSUME SetupInv, NEW r \in Runs,
           NEW x \in {"assetstore", "plugins", "restart", "settings", "recipe", "image", "build"},
           run[r].pc = x, NEW t \in {Done(run[r], x), Failed(run[r])},
           Call(r, x, Done(run[r], x), t)
    PROVE  \/ SetupInv'
           \/ /\ UNCHANGED <<server, db, owner>> /\ Becomes(r, Done(run[r], x))
              /\ t = Done(run[r], x)
<1>1. UNCHANGED budget \/ \E k \in Kinds : Spend(k)
  BY CallCases
<1>2. CASE /\ server.up /\ Accepts(x) /\ Effect(r, x)
           /\ Becomes(r, Done(run[r], x)) \/ Becomes(r, t)
  BY <1>1, <1>2, EffectSetup
<1>3. CASE UNCHANGED <<server, db, owner>> /\ Becomes(r, t)
  BY <1>1, <1>3, FailsSetup
<1>4. QED
  BY <1>2, <1>3, CallCases

(* The owner goes on without an effect: from the assetstore, whose answer   *)
(* is not looked at, or from the second wait.                               *)
LEMMA GoesOnSetup ==
    ASSUME SetupInv, NEW r \in Runs, NEW t \in RunStates, Becomes(r, t),
           t.result = "none", UNCHANGED <<server, db, owner>>,
           \/ run[r].pc = "assetstore" /\ t.pc = "plugins"
           \/ run[r].pc = "rewait" /\ t.pc = "settings" /\ server.up /\ server.loaded,
           UNCHANGED budget \/ \E k \in Kinds : Spend(k)
    PROVE  SetupInv'
<1>1. /\ server' \in [up : BOOLEAN, loaded : BOOLEAN, restarting : BOOLEAN]
      /\ db' \in [Things -> Nat] /\ owner' \subseteq Runs
  BY DEF SetupInv, TypeOK
<1>2. TypeOK' /\ run'[r] = t /\ \A q \in Runs \ {r} : run'[q] = run[q]
  BY <1>1, StepTyped DEF SetupInv
<1>3. Placed(r)'
  <2>1. run[r].pc \in Past /\ Made[t.pc] = Made[run[r].pc]
    BY DEF Past, Made
  <2>2. QED
    BY <1>2, <2>1 DEF SetupInv, Placed, Past, Late
<1>4. \A q \in Runs \ {r} : Placed(q)'
  BY <1>2, OthersPlaced DEF SetupInv
<1>5. QED
  BY <1>2, <1>3, <1>4 DEF SetupInv, Sole

LEMMA CreateAssetstoreSetup ==
    ASSUME SetupInv, NEW r \in Runs, CreateAssetstore(r) PROVE SetupInv'
<1> DEFINE done == Done(run[r], "assetstore")
<1>1. /\ run[r] \in RunStates /\ run[r].pc = "assetstore" /\ run[r].result = "none"
      /\ done \in RunStates /\ done.pc = "plugins" /\ done.result = "none"
  <2>1. /\ run[r] \in RunStates /\ run[r].pc = "assetstore" /\ run[r].result = "none"
        /\ "assetstore" \in DOMAIN NextOf
    BY RunTyped DEF SetupInv, CreateAssetstore, NextOf
  <2>2. QED
    BY <2>1, DoneTyped DEF NextOf
<1>2. CASE Call(r, "assetstore", done, done)
  <2>1. UNCHANGED budget \/ \E k \in Kinds : Spend(k)
    BY <1>2, CallCases
  <2>2. CASE UNCHANGED <<server, db, owner>> /\ Becomes(r, done)
    BY <1>1, <2>1, <2>2, GoesOnSetup
  <2>3. QED
    BY <1>1, <1>2, <2>2, CallSetup
<1>3. CASE Call(r, "assetstore", done, Failed(run[r]))
  <2>1. UNCHANGED budget \/ \E k \in Kinds : Spend(k)
    BY <1>3, CallCases
  <2>2. CASE UNCHANGED <<server, db, owner>> /\ Becomes(r, done)
    BY <1>1, <2>1, <2>2, GoesOnSetup
  <2>3. QED
    BY <1>1, <1>3, <2>2, CallSetup
<1>4. \/ Call(r, "assetstore", done, done)
      \/ Call(r, "assetstore", done, Failed(run[r]))
  BY DEF CreateAssetstore, Call
<1>5. QED
  BY <1>2, <1>3, <1>4

LEMMA WaitForRestartSetup ==
    ASSUME SetupInv, NEW r \in Runs, WaitForRestart(r) PROVE SetupInv'
<1>1. run[r] \in RunStates /\ run[r].pc = "rewait" /\ run[r].result = "none"
  BY RunTyped DEF SetupInv, WaitForRestart
<1>2. CASE server.up /\ server.loaded /\ Becomes(r, [run[r] EXCEPT !.pc = "settings"])
  <2>1. /\ [run[r] EXCEPT !.pc = "settings"] \in RunStates
        /\ [run[r] EXCEPT !.pc = "settings"].pc = "settings"
        /\ [run[r] EXCEPT !.pc = "settings"].result = "none"
    BY <1>1 DEF RunStates, Places
  <2>2. QED
    BY <1>1, <1>2, <2>1, GoesOnSetup DEF WaitForRestart
<1>3. CASE Becomes(r, Failed(run[r]))
  BY <1>3, FailsSetup DEF WaitForRestart
<1>4. QED
  BY <1>2, <1>3 DEF WaitForRestart

(* The other calls fail when they have no effect. *)
LEMMA WatchedSetup ==
    ASSUME SetupInv, NEW r \in Runs, EnablePlugins(r) \/ SetUpPlugin(r) PROVE SetupInv'
<1>1. run[r].pc \in {"plugins", "restart", "settings", "recipe", "image", "build"}
  BY DEF EnablePlugins, SetUpPlugin
<1> DEFINE done == Done(run[r], run[r].pc)
<1>2. CASE Call(r, run[r].pc, done, Failed(run[r]))
  <2>1. done # Failed(run[r])
    <3>1. /\ run[r] \in RunStates /\ run[r].result = "none" /\ run[r].pc \in DOMAIN NextOf
      BY <1>1, RunTyped DEF SetupInv, NextOf
    <3>2. done.result # "failed" /\ Failed(run[r]).result = "failed"
      BY <3>1, DoneTyped, FailedTyped
    <3>3. QED
      BY <3>2
  <2>2. QED
    BY <1>1, <1>2, <2>1, CallSetup
<1>3. CASE Becomes(r, Failed(run[r])) /\ UNCHANGED <<server, db, owner, budget>>
  BY <1>3, FailsSetup
<1>4. QED
  BY <1>2, <1>3 DEF EnablePlugins, SetUpPlugin

LEMMA InterruptSetup == ASSUME SetupInv, NEW r \in Runs, Interrupt(r) PROVE SetupInv'
BY FailsSetup DEF Interrupt, Kinds

LEMMA ServerSetup ==
    ASSUME SetupInv, ServerStarts \/ ServerRestarts \/ ServerStops PROVE SetupInv'
<1>1. /\ UNCHANGED <<db, run, owner>>
      /\ server' \in [up : BOOLEAN, loaded : BOOLEAN, restarting : BOOLEAN]
      /\ server'.up /\ db["plugins"] > 0 => server'.loaded
  <2>1. CASE ServerStarts
    <3>1. server' = [up |-> TRUE, loaded |-> db["plugins"] > 0, restarting |-> FALSE]
      BY <2>1 DEF ServerStarts
    <3>2. server' \in [up : BOOLEAN, loaded : BOOLEAN, restarting : BOOLEAN]
      BY <3>1
    <3>3. server'.loaded = (db["plugins"] > 0)
      BY <3>1
    <3>4. UNCHANGED <<db, run, owner>>
      BY <2>1 DEF ServerStarts
    <3>5. QED
      BY <3>2, <3>3, <3>4
  <2>2. CASE ServerRestarts \/ ServerStops
    <3>1. server' = Down /\ UNCHANGED <<db, run, owner>>
      BY <2>2 DEF ServerRestarts, ServerStops
    <3>2. server' \in [up : BOOLEAN, loaded : BOOLEAN, restarting : BOOLEAN]
      BY <3>1 DEF Down
    <3>3. server'.up = FALSE
      BY <3>1 DEF Down
    <3>4. QED
      BY <3>1, <3>2, <3>3
  <2>3. QED
    BY <2>1, <2>2
<1>2. UNCHANGED budget \/ \E k \in Kinds : Spend(k)
  BY DEF ServerStarts, ServerRestarts, ServerStops, Kinds
<1>3. TypeOK'
  BY <1>1, <1>2, BudgetTyped DEF SetupInv, TypeOK
<1>4. ASSUME NEW r \in Runs PROVE Placed(r)'
  <2>1. run[r].pc \in Late => db["plugins"] = 1
    BY DEF SetupInv, Placed, Late, Past, Made, Checked, Things
  <2>2. QED
    BY <1>1, <2>1 DEF SetupInv, Placed, Late
<1>5. QED
  BY <1>1, <1>3, <1>4 DEF SetupInv, Sole

LEMMA StepSetup == ASSUME SetupInv, [Next]_vars PROVE SetupInv'
<1>1. CASE UNCHANGED vars
  BY <1>1 DEF vars, SetupInv, TypeOK, Sole, Placed
<1>2. ASSUME NEW r \in Runs, Start(r) \/ Step(r) \/ Interrupt(r) PROVE SetupInv'
  BY <1>2, StartSetup, WaitForGirderSetup, CreateAdminSetup, CreateAssetstoreSetup,
     WatchedSetup, WaitForRestartSetup, InterruptSetup DEF Step
<1>3. CASE ServerStarts \/ ServerRestarts \/ ServerStops
  BY <1>3, ServerSetup
<1>4. QED
  BY <1>1, <1>2, <1>3 DEF Next

LEMMA SetupInvariant == Spec => []SetupInv
BY InitSetup, StepSetup, PTL DEF Spec
------------------------------------------------------------------------------
(* The types of a run of setup_girder.py and of Girder, for any number of   *)
(* runs and whatever goes wrong.                                            *)
THEOREM TypeCorrect == Spec => []TypeOK
<1>1. SetupInv => TypeOK
  BY DEF SetupInv
<1>2. QED
  BY <1>1, SetupInvariant, PTL

(* setup_girder.py:47-169: the admin user keeps a second run from making    *)
(* anything, at once with the first or after it.                            *)
THEOREM NothingIsTwice == Spec => []NothingTwice
<1>1. SetupInv => NothingTwice
  BY DEF SetupInv, Sole, NothingTwice
<1>2. QED
  BY <1>1, SetupInvariant, PTL

(* setup_girder.py:83-97: after the second wait Girder has the plugins for  *)
(* good, however often it stops.                                            *)
THEOREM PluginsAreServed == Spec => []PluginsServed
<1>1. SetupInv => PluginsServed
  BY DEF SetupInv, Placed, PluginsServed, Late
<1>2. QED
  BY <1>1, SetupInvariant, PTL

(* setup_girder.py: a run that comes to its end has made all but the        *)
(* assetstore.                                                              *)
THEOREM SuccessIsWhole == Spec => []SuccessIsComplete
<1>1. SetupInv => SuccessIsComplete
  BY DEF SetupInv, Placed, SuccessIsComplete, Checked
<1>2. QED
  BY <1>1, SetupInvariant, PTL
------------------------------------------------------------------------------
(* Every step is one of SetupOnce, or none *)

Stage == IF db["build"] > 0 THEN "ready" ELSE IF db["admin"] > 0 THEN "claimed" ELSE "fresh"
Result == [r \in Runs |-> run[r].result]

LEMMA ResultBecomes ==
    ASSUME TypeOK, NEW r \in Runs, NEW t, Becomes(r, t)
    PROVE  Result' = [Result EXCEPT ![r] = t.result] /\ Result[r] = run[r].result
BY DEF TypeOK, Becomes, Result

(* A run that goes on, or fails, without claiming Girder or completing it. *)
LEMMA QuietOnce ==
    ASSUME SetupInv, NEW r \in Runs, NEW t, Becomes(r, t), run[r].result = "none",
           t.result \in {"none", "failed"}, owner' = owner,
           db'["admin"] = db["admin"], db'["build"] = db["build"]
    PROVE  [Once!Next]_(Once!vars)
<1>1. Stage' = Stage
  BY DEF Stage
<1>2. Result' = [Result EXCEPT ![r] = t.result] /\ Result[r] = "none"
  BY ResultBecomes DEF SetupInv
<1>3. CASE t.result = "none"
  <2>1. Result' = Result
    BY <1>2, <1>3 DEF Result
  <2>2. QED
    BY <1>1, <2>1 DEF Once!vars, Stage, Result
<1>4. CASE t.result = "failed"
  <2>1. Once!Fail(r)
    BY <1>1, <1>2, <1>4 DEF Once!Fail, Stage, Result
  <2>2. QED
    BY <2>1 DEF Once!Next
<1>5. QED
  BY <1>3, <1>4

LEMMA FailsOnce ==
    ASSUME SetupInv, NEW r \in Runs, run[r].pc # "ended", Becomes(r, Failed(run[r])),
           UNCHANGED <<db, owner>>
    PROVE  [Once!Next]_(Once!vars)
<1>1. run[r] \in RunStates /\ run[r].result = "none"
  BY RunTyped DEF SetupInv
<1>2. QED
  BY <1>1, FailedTyped, QuietOnce

LEMMA AdminOnce ==
    ASSUME SetupInv, NEW r \in Runs, CreateAdmin(r) PROVE [Once!Next]_(Once!vars)
<1>1. /\ run[r] \in RunStates /\ run[r].pc = "admin" /\ run[r].result = "none"
      /\ "admin" \in DOMAIN NextOf
  BY RunTyped DEF SetupInv, CreateAdmin, NextOf
<1>2. CASE /\ Accepts("admin") /\ Effect(r, "admin")
           /\ Becomes(r, Done(run[r], "admin")) \/ Becomes(r, Failed(run[r]))
  <2>1. PICK t \in {Done(run[r], "admin"), Failed(run[r])} : Becomes(r, t)
    BY <1>2
  <2>2. t.result \in {"none", "failed"}
    BY <1>1, DoneTyped, FailedTyped
  <2>3. /\ owner = {} /\ db["admin"] = 0 /\ db["build"] = 0
    BY <1>2 DEF Accepts, SetupInv, Sole, Things
  <2>4. owner' = {r} /\ db'["admin"] = 1 /\ db'["build"] = 0
    BY <1>1, <1>2, <2>3, EffectTyped DEF SetupInv, Things
  <2>5. Stage = "fresh" /\ Stage' = "claimed"
    BY <2>3, <2>4 DEF Stage
  <2>6. Result' = [Result EXCEPT ![r] = t.result] /\ Result[r] = "none"
    BY <1>1, <2>1, ResultBecomes DEF SetupInv
  <2>7. Result' \in {Result, [Result EXCEPT ![r] = "failed"]}
    BY <2>2, <2>6 DEF Result
  <2>8. Once!Claim(r)
    BY <2>4, <2>5, <2>6, <2>7 DEF Once!Claim, Once!MayFail, Stage, Result
  <2>9. QED
    BY <2>8 DEF Once!Next
<1>3. CASE UNCHANGED <<server, db, owner>> /\ Becomes(r, Failed(run[r]))
  BY <1>1, <1>3, FailsOnce
<1>4. Call(r, "admin", Done(run[r], "admin"), Failed(run[r]))
  BY DEF CreateAdmin
<1>5. QED
  BY <1>2, <1>3, <1>4, CallCases

(* The last call makes Girder ready. *)
LEMMA BuildOnce ==
    ASSUME SetupInv, NEW r \in Runs, run[r].pc = "build", Effect(r, "build"),
           Becomes(r, Done(run[r], "build")) \/ Becomes(r, Failed(run[r]))
    PROVE  [Once!Next]_(Once!vars)
<1>1. /\ run[r] \in RunStates /\ run[r].result = "none" /\ "build" \in DOMAIN NextOf
  BY RunTyped DEF SetupInv, NextOf
<1>2. PICK t \in {Done(run[r], "build"), Failed(run[r])} : Becomes(r, t)
  OBVIOUS
<1>3. t.result \in {"ok", "failed"}
  BY <1>1, DoneTyped, FailedTyped
<1>4. owner = {r} /\ db["admin"] = 1 /\ db["build"] = 0
  BY DEF SetupInv, Placed, Past, Made, Checked, Things
<1>5. owner' = owner /\ db'["build"] = 1
  BY <1>1, <1>4, EffectTyped DEF SetupInv, Things
<1>6. Stage = "claimed" /\ Stage' = "ready"
  BY <1>4, <1>5 DEF Stage
<1>7. Result' = [Result EXCEPT ![r] = t.result] /\ Result[r] = "none"
  BY <1>1, <1>2, ResultBecomes DEF SetupInv
<1>8. Once!Complete(r)
  BY <1>3, <1>4, <1>5, <1>6, <1>7 DEF Once!Complete, Stage, Result
<1>9. QED
  BY <1>8 DEF Once!Next

(* The calls in between leave the admin user and the build alone. *)
LEMMA BetweenOnce ==
    ASSUME SetupInv, NEW r \in Runs,
           NEW x \in {"assetstore", "plugins", "restart", "settings", "recipe", "image"},
           run[r].pc = x, Effect(r, x),
           Becomes(r, Done(run[r], x)) \/ Becomes(r, Failed(run[r]))
    PROVE  [Once!Next]_(Once!vars)
<1>1. /\ run[r] \in RunStates /\ run[r].result = "none" /\ x \in DOMAIN NextOf
  BY RunTyped DEF SetupInv, NextOf
<1>2. PICK t \in {Done(run[r], x), Failed(run[r])} : Becomes(r, t)
  OBVIOUS
<1>3. t.result \in {"none", "failed"}
  BY <1>1, DoneTyped, FailedTyped
<1>4. owner' = owner /\ db'["admin"] = db["admin"] /\ db'["build"] = db["build"]
  BY <1>1, EffectTyped DEF SetupInv, Things
<1>5. QED
  BY <1>1, <1>2, <1>3, <1>4, QuietOnce

LEMMA CallOnce ==
    ASSUME SetupInv, NEW r \in Runs,
           NEW x \in {"assetstore", "plugins", "restart", "settings", "recipe", "image", "build"},
           run[r].pc = x, NEW t \in {Done(run[r], x), Failed(run[r])},
           x = "build" => t = Failed(run[r]), Call(r, x, Done(run[r], x), t)
    PROVE  [Once!Next]_(Once!vars)
<1>1. /\ run[r] \in RunStates /\ run[r].result = "none" /\ x \in DOMAIN NextOf
  BY RunTyped DEF SetupInv, NextOf
<1>2. CASE Effect(r, x) /\ (Becomes(r, Done(run[r], x)) \/ Becomes(r, t))
  BY <1>2, BuildOnce, BetweenOnce
<1>3. CASE UNCHANGED <<server, db, owner>> /\ Becomes(r, t)
  <2>1. t.result \in {"none", "failed"}
    BY <1>1, DoneTyped, FailedTyped
  <2>2. QED
    BY <1>1, <1>3, <2>1, QuietOnce
<1>4. QED
  BY <1>2, <1>3, CallCases

(* The waits, which only move the run. *)
LEMMA WaitOnce ==
    ASSUME SetupInv, NEW r \in Runs, Start(r) \/ WaitForGirder(r) \/ WaitForRestart(r)
    PROVE  [Once!Next]_(Once!vars)
<1>1. /\ run[r] \in RunStates /\ run[r].pc # "ended" /\ run[r].result = "none"
      /\ UNCHANGED <<db, owner>>
  BY RunTyped DEF SetupInv, Start, WaitForGirder, WaitForRestart
<1>2. PICK t : Becomes(r, t) /\ t.result \in {"none", "failed"}
  <2>1. CASE Start(r)
    <3>1. PICK e \in BOOLEAN : Becomes(r, [NewRun EXCEPT !.pc = "wait", !.env = e])
      BY <2>1 DEF Start
    <3>2. [NewRun EXCEPT !.pc = "wait", !.env = e].result = "none"
      BY DEF NewRun
    <3>3. QED
      BY <3>1, <3>2
  <2>2. CASE WaitForGirder(r) \/ WaitForRestart(r)
    <3>1. \A t \in {[run[r] EXCEPT !.pc = "admin"], [run[r] EXCEPT !.connErrCount = @ + 1],
                     [run[r] EXCEPT !.pc = "settings"], Failed(run[r])} :
             t.result \in {"none", "failed"}
      BY <1>1, FailedTyped DEF RunStates
    <3>2. \E t \in {[run[r] EXCEPT !.pc = "admin"], [run[r] EXCEPT !.connErrCount = @ + 1],
                     [run[r] EXCEPT !.pc = "settings"], Failed(run[r])} : Becomes(r, t)
      BY <2>2 DEF WaitForGirder, WaitForRestart
    <3>3. QED
      BY <3>1, <3>2
  <2>3. QED
    BY <2>1, <2>2
<1>3. QED
  BY <1>1, <1>2, QuietOnce

LEMMA StepOnce == ASSUME SetupInv, [Next]_vars PROVE [Once!Next]_(Once!vars)
<1>1. CASE UNCHANGED vars
  BY <1>1 DEF vars, Once!vars
<1>2. CASE ServerStarts \/ ServerRestarts \/ ServerStops
  BY <1>2 DEF ServerStarts, ServerRestarts, ServerStops, Once!vars
<1>3. ASSUME NEW r \in Runs, Start(r) \/ Step(r) \/ Interrupt(r)
      PROVE  [Once!Next]_(Once!vars)
  <2>1. CASE CreateAssetstore(r)
    <3>1. /\ run[r].pc = "assetstore"
          /\ \/ Call(r, "assetstore", Done(run[r], "assetstore"), Done(run[r], "assetstore"))
             \/ Call(r, "assetstore", Done(run[r], "assetstore"), Failed(run[r]))
      BY <2>1 DEF CreateAssetstore, Call
    <3>2. QED
      BY <3>1, CallOnce
  <2>2. CASE EnablePlugins(r) \/ SetUpPlugin(r)
    <3>1. run[r].pc \in {"plugins", "restart", "settings", "recipe", "image", "build"}
      BY <2>2 DEF EnablePlugins, SetUpPlugin
    <3>2. CASE Call(r, run[r].pc, Done(run[r], run[r].pc), Failed(run[r]))
      BY <3>1, <3>2, CallOnce
    <3>3. CASE Becomes(r, Failed(run[r])) /\ UNCHANGED <<db, owner>>
      BY <3>1, <3>3, FailsOnce
    <3>4. QED
      BY <2>2, <3>2, <3>3 DEF EnablePlugins, SetUpPlugin
  <2>3. CASE Interrupt(r)
    BY <2>3, FailsOnce DEF Interrupt
  <2>4. QED
    BY <1>3, <2>1, <2>2, <2>3, WaitOnce, AdminOnce DEF Step
<1>4. QED
  BY <1>1, <1>2, <1>3 DEF Next

LEMMA InitOnce == ASSUME Init PROVE Once!Init
BY DEF Init, NewRun, Once!Init, Things

(* setup_girder.py: of all the runs there are, however they overlap or end, *)
(* one claims Girder and that one alone makes it ready.                     *)
THEOREM GirderIsSetUpOnce == Spec => ImplementsSetupOnce
BY InitOnce, StepOnce, SetupInvariant, PTL DEF Spec, ImplementsSetupOnce, Once!Spec
=============================================================================
