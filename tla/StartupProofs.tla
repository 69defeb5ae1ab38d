---------------------------- MODULE StartupProofs ----------------------------
(***************************************************************************)
(* Theorems about Names and Startup, for every config and every set of     *)
(* services.                                                               *)
(***************************************************************************)
EXTENDS Startup, TLAPS

\* generateMirrorName: under prefixes that are apart, no two services whatever
\* have the same mirror name.
THEOREM ApartNamesDiffer ==
    ASSUME NEW p \in Seq(Part), NEW q \in Seq(Part), Apart(p, q),
           NEW s1 \in Seq(Part), NEW n1 \in Seq(Part),
           NEW s2 \in Seq(Part), NEW n2 \in Seq(Part)
    PROVE  MirrorName(p, s1, n1) # MirrorName(q, s2, n2)
<1>1. PICK i \in DOMAIN p \cap DOMAIN q : p[i] # q[i] BY DEF Apart
<1>2. <<Separator>> \in Seq(Part) BY PartAssumption
<1>3. MirrorName(p, s1, n1)[i] = p[i] BY <1>1, <1>2 DEF MirrorName
<1>4. MirrorName(q, s2, n2)[i] = q[i] BY <1>1, <1>2 DEF MirrorName
<1> QED BY <1>1, <1>3, <1>4

\* generateGlobalServiceName: a global service has the name of no mirror, unless
\* a remote's prefix is `gl' or begins with it.
THEOREM GlobalNamesDiffer ==
    ASSUME NEW p \in Seq(Part), Apart(p, <<Global>>),
           NEW s1 \in Seq(Part), NEW n1 \in Seq(Part),
           NEW s2 \in Seq(Part), NEW n2 \in Seq(Part)
    PROVE  MirrorName(p, s1, n1) # GlobalServiceName(n2, s2)
<1>1. <<Global>> \in Seq(Part) BY PartAssumption
<1>2. GlobalServiceName(n2, s2) = MirrorName(<<Global>>, s2, n2)
  BY DEF GlobalServiceName, MirrorName
<1> QED BY <1>1, <1>2, ApartNamesDiffer

\* Where the parts of a mirror name are.
Joins(m, p, s, n) ==
    /\ Len(m) = Len(p) + Len(s) + 1 + Len(n)
    /\ m[Len(p) + Len(s) + 1] = Separator
    /\ \A i \in 1 .. Len(s) : m[Len(p) + i] = s[i]
    /\ \A i \in 1 .. Len(n) : m[Len(p) + Len(s) + 1 + i] = n[i]

\* generateMirrorName has its four arguments one after the other.
LEMMA MirrorNameJoins ==
    ASSUME NEW p \in Seq(Part), NEW s \in Seq(Part), NEW n \in Seq(Part)
    PROVE  Joins(MirrorName(p, s, n), p, s, n)
<1> DEFINE m == MirrorName(p, s, n)
<1> DEFINE x == p \o s
           y == x \o <<Separator>>
<1>1. x \in Seq(Part) OBVIOUS
<1>2. Len(x) = Len(p) + Len(s) /\ \A i \in 1 .. Len(s) : x[Len(p) + i] = s[i]
  OBVIOUS
<1> HIDE DEF x
<1>3. y \in Seq(Part) BY <1>1, PartAssumption
<1>4. /\ Len(y) = Len(x) + 1 /\ y[Len(x) + 1] = Separator
      /\ \A i \in 1 .. Len(x) : y[i] = x[i]
  BY <1>1, PartAssumption
<1>5. m = y \o n BY DEF x, m, MirrorName
<1> HIDE DEF y, m
<1>6. /\ Len(m) = Len(y) + Len(n) /\ \A i \in 1 .. Len(y) : m[i] = y[i]
      /\ \A i \in 1 .. Len(n) : m[Len(y) + i] = n[i]
  BY <1>3, <1>5
<1>7. m[Len(p) + Len(s) + 1] = Separator BY <1>2, <1>4, <1>6
<1>8. ASSUME NEW i \in 1 .. Len(s) PROVE m[Len(p) + i] = s[i]
  <2>1. Len(p) + i \in 1 .. Len(x) BY <1>2
  <2>2. Len(p) + i \in 1 .. Len(y) BY <2>1, <1>4
  <2> QED BY <2>1, <2>2, <1>2, <1>4, <1>6
<1>9. ASSUME NEW i \in 1 .. Len(n) PROVE m[Len(p) + Len(s) + 1 + i] = n[i]
  BY <1>2, <1>4, <1>6
<1>10. Joins(m, p, s, n) BY <1>2, <1>4, <1>6, <1>7, <1>8, <1>9 DEF Joins
<1> QED BY <1>10 DEF m

\* Sequences with the same elements are the same.
LEMMA SameSequence ==
    ASSUME NEW s \in Seq(Part), NEW t \in Seq(Part), Len(s) = Len(t),
           \A i \in 1 .. Len(s) : s[i] = t[i]
    PROVE  s = t
OBVIOUS

\* generateMirrorName, "Separator is inserted between the namespace and name in
\* the mirror name to prevent clashes": under one prefix it does, if no namespace
\* has it as one of its parts.
THEOREM SeparatorTellsNames ==
    ASSUME NEW p \in Seq(Part),
           NEW s1 \in Seq(Part), NEW n1 \in Seq(Part), Plain(s1),
           NEW s2 \in Seq(Part), NEW n2 \in Seq(Part), Plain(s2),
           MirrorName(p, s1, n1) = MirrorName(p, s2, n2)
    PROVE  s1 = s2 /\ n1 = n2
<1>1. PICK m : m = MirrorName(p, s1, n1) OBVIOUS
<1>2. m = MirrorName(p, s2, n2) BY <1>1
<1>3. Joins(m, p, s1, n1) BY <1>1, MirrorNameJoins
<1>4. Joins(m, p, s2, n2) BY <1>2, MirrorNameJoins
<1> USE DEF Joins
<1>6. Len(s1) = Len(s2)
  <2>1. ~(Len(s1) < Len(s2))
    <3> SUFFICES ASSUME Len(s1) < Len(s2) PROVE FALSE OBVIOUS
    <3>1. Len(s1) + 1 \in 1 .. Len(s2) OBVIOUS
    <3>2. m[Len(p) + (Len(s1) + 1)] = s2[Len(s1) + 1] BY <3>1, <1>4
    <3>3. s2[Len(s1) + 1] # Separator BY <3>1 DEF Plain
    <3> QED BY <3>2, <3>3, <1>3
  <2>2. ~(Len(s2) < Len(s1))
    <3> SUFFICES ASSUME Len(s2) < Len(s1) PROVE FALSE OBVIOUS
    <3>1. Len(s2) + 1 \in 1 .. Len(s1) OBVIOUS
    <3>2. m[Len(p) + (Len(s2) + 1)] = s1[Len(s2) + 1] BY <3>1, <1>3
    <3>3. s1[Len(s2) + 1] # Separator BY <3>1 DEF Plain
    <3> QED BY <3>2, <3>3, <1>4
  <2> QED BY <2>1, <2>2
<1>7. s1 = s2
  <2>1. \A i \in 1 .. Len(s1) : s1[i] = s2[i] BY <1>3, <1>4, <1>6
  <2> QED BY <2>1, <1>6, SameSequence
<1>8. n1 = n2
  <2>1. Len(n1) = Len(n2) BY <1>3, <1>4, <1>6
  <2>2. \A i \in 1 .. Len(n1) : n1[i] = n2[i] BY <1>3, <1>4, <1>6, <2>1
  <2> QED BY <2>1, <2>2, SameSequence
<1> QED BY <1>7, <1>8

-----------------------------------------------------------------------------
\* The runners that main has launched by the time it is where it is.
Launched ==
    IF main \in {"remotes", "serving"}
      THEN {<<"global", Local>>} \cup ({"mirror", "global"} \X (1 .. (next - 1)))
      ELSE {}

\* runners lists exactly those, and each one's stage and flag agree.
RunnersLaunched ==
    /\ runners = Launched
    /\ main \notin {"remotes", "serving"} => next = 1
    /\ main = "serving" => next \notin Configured
    /\ \A r \in Runners :
        /\ stage[r] = "none" <=> r \notin runners
        /\ r \in initialised <=> stage[r] \in {"waiting", "syncing", "running"}

\* A mirror runner's worker has a key only while it runs, its startup sync has
\* mirrors to delete only while it is at it, and both come after the first list.
Works(i) ==
    /\ doing[i] = "idle" => key[i] = None
    /\ doing[i] # "idle" => stage[<<"mirror", i>>] = "running"
    /\ todo[i] # {} => stage[<<"mirror", i>>] = "syncing"
    /\ stage[<<"mirror", i>>] \in {"syncing", "running"} => "services" \in listed[i]

RunnersWork == \A i \in Remotes : Works(i)

IInv == TypeOK /\ RunnersLaunched /\ RunnersWork

\* What a config file says has its type.
LEMMA ConfigType ==
    ASSUME config \in Files
    PROVE  /\ config.remotes \in Seq(Remote) /\ Configured = 1 .. Len(config.remotes)
           /\ Len(config.remotes) \in Nat /\ Configured \subseteq Remotes
           /\ \A i \in Configured : config.remotes[i].prefix \in Seq(Part)
<1>1. config.remotes \in Seq(Remote) /\ Len(config.remotes) <= MaxRemotes
  BY ConstantsAssumption
<1>2. Configured = 1 .. Len(config.remotes) /\ Len(config.remotes) \in Nat
  BY <1>1 DEF Configured
<1>3. Configured \subseteq Remotes BY <1>1, <1>2, ConstantsAssumption DEF Remotes
<1>4. \A i \in Configured : config.remotes[i] \in Remote BY <1>1 DEF Configured
<1> QED BY <1>1, <1>2, <1>3, <1>4 DEF Remote

\* A disturbance is taken off the budget.
LEMMA SpendLeft ==
    ASSUME left \in [Hazards -> Nat], NEW h \in Hazards, Spend(h)
    PROVE  left' \in [Hazards -> Nat]
BY DEF Spend

\* The invariant holds when main begins.
LEMMA InitIInv == Init => IInv
<1> SUFFICES ASSUME Init PROVE IInv OBVIOUS
<1> USE DEF Init, Each
<1>1. TypeOK BY ConfigType, ConstantsAssumption DEF TypeOK, Stages, MirrorOf, NameOf, Clusters
<1>2. RunnersLaunched BY DEF RunnersLaunched, Launched
<1>3. RunnersWork BY DEF RunnersWork, Works, Runners
<1> QED BY <1>1, <1>2, <1>3 DEF IInv

\* The process ends: nothing is left of its runners.
LEMMA ExitIInv ==
    ASSUME IInv, Exit, left' \in [Hazards -> Nat]
    PROVE  IInv'
<1> USE DEF Exit, Each, clusterVars, IInv
<1>1. TypeOK'
  BY ConfigType DEF TypeOK, Stages, MirrorOf, NameOf, Configured
<1>2. RunnersLaunched' BY DEF RunnersLaunched, Launched
<1>3. RunnersWork' BY DEF RunnersWork, Works, Runners
<1> QED BY <1>1, <1>2, <1>3

\* Mirrors are only made, under their own name, for configured remotes: the
\* worker of a runner that has been launched.
LEMMA RunningIsConfigured ==
    ASSUME IInv, NEW i \in Remotes, stage[<<"mirror", i>>] # "none"
    PROVE  i \in Configured
<1> USE DEF IInv, TypeOK, RunnersLaunched
<1>1. <<"mirror", i>> \in Runners BY DEF Runners
<1>2. <<"mirror", i>> \in Launched BY <1>1
<1>3. i \in 1 .. (next - 1) BY <1>2 DEF Launched
<1> QED BY <1>3, ConfigType

\* The config of a deployment stays.
LEMMA ConfigStays == [Next]_vars => config' = config /\ Configured' = Configured
BY DEF Next, Main, MirrorRunner, GlobalRunner, vars, clusterVars, Outage, Answer, Change,
       Restart, ParseConfig, StartLocal, StartRemote, ListenAndServe, ListenFails, Crash,
       Fail, Exit, Run, GlobalSynced, ListServices, Deliver, ListMirrors, SyncStart,
       SyncDelete, SyncAbort, SyncDone, Begin, Return, Reconcile, ReconcileFails, Configured

\* A step that leaves main and the stages alone keeps the runners' list.
LEMMA SameLaunched ==
    ASSUME RunnersLaunched, UNCHANGED <<main, next, runners, stage, initialised, config>>
    PROVE  RunnersLaunched'
BY DEF RunnersLaunched, Launched, Configured

\* So does one that takes runners that are past their flag to other such stages.
LEMMA LaterLaunched ==
    ASSUME RunnersLaunched, UNCHANGED <<main, next, runners, initialised, config>>,
           \A r \in Runners : stage'[r] # stage[r] =>
              {stage[r], stage'[r]} \subseteq {"waiting", "syncing", "running"}
    PROVE  RunnersLaunched'
<1>1. Launched' = Launched /\ Configured' = Configured BY DEF Launched, Configured
<1> QED BY <1>1 DEF RunnersLaunched

\* Writing a key's mirror, or deleting it, keeps the mirrors in their range.
LEMMA WrittenType ==
    ASSUME IInv, NEW i \in Remotes, doing[i] # "idle"
    PROVE  /\ i \in Configured /\ key[i] \in Originals
           /\ Written(i) \subseteq {MirrorOf(j, o) : j \in Configured, o \in Originals}
<1>1. stage[<<"mirror", i>>] # "none" BY DEF IInv, RunnersWork, Works
<1>2. i \in Configured BY <1>1, RunningIsConfigured
<1>3. key[i] \in Originals BY DEF IInv, TypeOK
<1> QED BY <1>2, <1>3 DEF Written, IInv, TypeOK

\* Each step of main, a runner or a cluster keeps all parts of the invariant.
LEMMA StepIInv == IInv /\ [Next]_vars => IInv'
<1> SUFFICES ASSUME IInv, [Next]_vars PROVE IInv' OBVIOUS
<1> USE DEF IInv, clusterVars, processVars, syncVars
<1>1. ASSUME NEW c \in Clusters, Outage(c) PROVE IInv'
  <2> USE <1>1 DEF Outage
  <2>0. left' \in [Hazards -> Nat] BY SpendLeft, "outage" \in Hazards DEF TypeOK, Hazards
  <2>1. TypeOK' BY <2>0 DEF TypeOK, MirrorOf, NameOf, Configured
  <2>2. RunnersLaunched' BY SameLaunched
  <2>3. RunnersWork' BY DEF RunnersWork, Works
  <2> QED BY <2>1, <2>2, <2>3
<1>2. ASSUME NEW c \in Clusters, Answer(c) PROVE IInv'
  <2> USE <1>2 DEF Answer
  <2>1. TypeOK' BY DEF TypeOK, MirrorOf, NameOf, Configured
  <2>2. RunnersLaunched' BY SameLaunched
  <2>3. RunnersWork' BY DEF RunnersWork, Works
  <2> QED BY <2>1, <2>2, <2>3
<1>3. ASSUME NEW i \in Remotes, NEW o \in Originals, Change(i, o) PROVE IInv'
  <2> USE <1>3 DEF Change
  <2>0. left' \in [Hazards -> Nat] BY SpendLeft, "change" \in Hazards DEF TypeOK, Hazards
  <2>1. TypeOK' BY <2>0 DEF TypeOK, MirrorOf, NameOf, Configured, Toggle
  <2>2. RunnersLaunched' BY SameLaunched
  <2>3. RunnersWork' BY DEF RunnersWork, Works
  <2> QED BY <2>1, <2>2, <2>3
<1>4. ASSUME Restart PROVE IInv'
  <2> USE <1>4 DEF Restart
  <2>1. TypeOK' BY DEF TypeOK, MirrorOf, NameOf, Configured
  <2>2. RunnersLaunched' BY DEF RunnersLaunched, Launched, Configured
  <2>3. RunnersWork' BY DEF RunnersWork, Works
  <2> QED BY <2>1, <2>2, <2>3
<1>5. ASSUME ParseConfig PROVE IInv'
  <2> USE <1>5 DEF ParseConfig
  <2>1. CASE Fail BY <2>1, ExitIInv DEF Fail, TypeOK
  <2>2. CASE ~Fail
    <3>1. TypeOK' BY <2>2, ConfigType DEF TypeOK, MirrorOf, NameOf, Configured
    <3>2. RunnersLaunched' BY <2>2 DEF RunnersLaunched, Launched, Configured
    <3>3. RunnersWork' BY <2>2 DEF RunnersWork, Works
    <3> QED BY <3>1, <3>2, <3>3
  <2> QED BY <2>1, <2>2
<1>6. ASSUME StartLocal PROVE IInv'
  <2> USE <1>6 DEF StartLocal
  <2>1. CASE Fail BY <2>1, ExitIInv DEF Fail, TypeOK
  <2>2. CASE ~Fail
    <3>1. TypeOK' BY <2>2, ConfigType DEF TypeOK, MirrorOf, NameOf, Configured, Launch, Stages, Runners, Clusters
    <3>2. RunnersLaunched' BY <2>2, ConfigType DEF TypeOK, RunnersLaunched, Launched, Configured, Launch, Runners
    <3>3. RunnersWork' BY <2>2 DEF RunnersWork, Works, Launch, Runners
    <3> QED BY <3>1, <3>2, <3>3
  <2> QED BY <2>1, <2>2
<1>7. ASSUME StartRemote PROVE IInv'
  <2> USE <1>7 DEF StartRemote
  <2>1. CASE Fail BY <2>1, ExitIInv DEF Fail, TypeOK
  <2>2. CASE ~Fail
    <3>1. TypeOK' BY <2>2, ConfigType DEF TypeOK, MirrorOf, NameOf, Configured, Launch, Stages, Runners, Clusters
    <3> DEFINE new == {<<"mirror", next>>, <<"global", next>>}
    <3>2. /\ main = "remotes" /\ main' = "remotes" /\ next' = next + 1 /\ next \in Nat \ {0}
          /\ next \in Remotes /\ runners' = runners \cup new
          /\ stage' = [r \in Runners |-> IF r \in new THEN "spawned" ELSE stage[r]]
          /\ UNCHANGED <<initialised, syncVars>>
      BY <2>2, ConfigType DEF TypeOK, Launch
    <3>3. new \cap Launched = {} BY <3>2 DEF Launched, Local
    <3>4. RunnersLaunched'
      <4>1. 1 .. (next' - 1) = (1 .. (next - 1)) \cup {next} BY <3>2
      <4>2. Launched' = Launched \cup new BY <3>2, <4>1 DEF Launched
      <4> HIDE DEF new
      <4>3. runners' = Launched' BY <3>2, <4>2 DEF RunnersLaunched
      <4>4. \A r \in Runners :
              /\ stage'[r] = "none" <=> r \notin runners'
              /\ r \in initialised' <=> stage'[r] \in {"waiting", "syncing", "running"}
        BY <3>2, <3>3 DEF RunnersLaunched
      <4> QED BY <3>2, <4>3, <4>4 DEF RunnersLaunched
    <3>5. RunnersWork'
      <4>1. \A i \in Remotes : <<"mirror", i>> \in Runners BY DEF Runners
      <4>2. \A r \in Runners : stage'[r] # stage[r] =>
                stage[r] = "none" /\ stage'[r] = "spawned"
        <5> HIDE DEF new
        <5> QED BY <3>2, <3>3 DEF RunnersLaunched
      <4> HIDE DEF new
      <4> QED BY <3>2, <4>1, <4>2 DEF RunnersWork, Works
    <3> QED BY <3>1, <3>4, <3>5
  <2> QED BY <2>1, <2>2
<1>8. ASSUME ListenAndServe PROVE IInv'
  <2> USE <1>8 DEF ListenAndServe
  <2>1. TypeOK' BY DEF TypeOK, MirrorOf, NameOf, Configured
  <2>2. RunnersLaunched' BY DEF RunnersLaunched, Launched, Configured
  <2>3. RunnersWork' BY DEF RunnersWork, Works
  <2> QED BY <2>1, <2>2, <2>3
<1>9. ASSUME ListenFails PROVE IInv'
  <2>1. left' \in [Hazards -> Nat] BY <1>9, SpendLeft, "crash" \in Hazards DEF ListenFails, TypeOK, Hazards
  <2> QED BY <1>9, <2>1, ExitIInv DEF ListenFails
<1>10. ASSUME Crash PROVE IInv'
  <2>1. left' \in [Hazards -> Nat] BY <1>10, SpendLeft, "crash" \in Hazards DEF Crash, TypeOK, Hazards
  <2> QED BY <1>10, <2>1, ExitIInv DEF Crash
<1>11. ASSUME NEW r \in Runners, Run(r) PROVE IInv'
  <2> USE <1>11 DEF Run
  <2>1. TypeOK' BY DEF TypeOK, MirrorOf, NameOf, Configured, Stages
  <2>2. RunnersLaunched' BY DEF TypeOK, RunnersLaunched, Launched, Configured
  <2>3. RunnersWork'
    <3> SUFFICES ASSUME NEW j \in Remotes PROVE Works(j)' BY DEF RunnersWork
    <3>1. <<"mirror", j>> \in Runners BY DEF Runners
    <3> QED BY <3>1 DEF TypeOK, RunnersWork, Works, Runners
  <2> QED BY <2>1, <2>2, <2>3
<1>12. ASSUME NEW c \in Clusters, GlobalSynced(c) PROVE IInv'
  <2> USE <1>12 DEF GlobalSynced
  <2>0. <<"global", c>> \in Runners BY DEF Runners
  <2>1. TypeOK' BY <2>0 DEF TypeOK, MirrorOf, NameOf, Configured, Stages
  <2>2. \A r \in Runners : stage'[r] # stage[r] => stage[r] = "waiting" /\ stage'[r] = "running"
    BY <2>0 DEF TypeOK
  <2>4. RunnersLaunched' BY <2>2, LaterLaunched
  <2>3. RunnersWork'
    <3> SUFFICES ASSUME NEW j \in Remotes PROVE Works(j)' BY DEF RunnersWork
    <3>1. <<"mirror", j>> \in Runners BY DEF Runners
    <3> QED BY <3>1, <2>0 DEF TypeOK, RunnersWork, Works, Runners
  <2> QED BY <2>1, <2>3, <2>4
<1>13. ASSUME NEW i \in Remotes, ListServices(i) PROVE IInv'
  <2> USE <1>13 DEF ListServices
  <2>1. TypeOK' BY DEF TypeOK, MirrorOf, NameOf, Configured
  <2>2. RunnersLaunched' BY SameLaunched
  <2>3. RunnersWork'
    <3> SUFFICES ASSUME NEW j \in Remotes PROVE Works(j)' BY DEF RunnersWork
    <3>1. <<"mirror", j>> \in Runners BY DEF Runners
    <3> QED BY <3>1 DEF TypeOK, RunnersWork, Works, Runners
  <2> QED BY <2>1, <2>2, <2>3
<1>14. ASSUME NEW i \in Remotes, NEW o \in Originals, Deliver(i, o) PROVE IInv'
  <2> USE <1>14 DEF Deliver
  <2>1. TypeOK' BY DEF TypeOK, MirrorOf, NameOf, Configured, Toggle
  <2>2. RunnersLaunched' BY SameLaunched
  <2>3. RunnersWork' BY DEF RunnersWork, Works
  <2> QED BY <2>1, <2>2, <2>3
<1>15. ASSUME NEW i \in Remotes, ListMirrors(i) PROVE IInv'
  <2> USE <1>15 DEF ListMirrors
  <2>1. TypeOK' BY DEF TypeOK, MirrorOf, NameOf, Configured
  <2>2. RunnersLaunched' BY SameLaunched
  <2>3. RunnersWork'
    <3> SUFFICES ASSUME NEW j \in Remotes PROVE Works(j)' BY DEF RunnersWork
    <3>1. <<"mirror", j>> \in Runners BY DEF Runners
    <3> QED BY <3>1 DEF TypeOK, RunnersWork, Works, Runners
  <2> QED BY <2>1, <2>2, <2>3
<1>16. ASSUME NEW i \in Remotes, SyncStart(i) PROVE IInv'
  <2>0. <<"mirror", i>> \in Runners /\ Stale(i) \subseteq mirrors BY DEF Runners, Stale
  <2>1. PICK to \in {"syncing", "running"} :
          /\ stage' = [stage EXCEPT ![<<"mirror", i>>] = to]
          /\ IF to = "syncing" THEN todo' = [todo EXCEPT ![i] = Stale(i)] ELSE todo' = todo
    BY <1>16 DEF SyncStart
  <2>2. /\ stage[<<"mirror", i>>] = "waiting" /\ listed[i] = {"services", "mirrors"}
        /\ UNCHANGED <<main, next, runners, initialised, listed, cache, due, doing, key,
                       clusterVars, left>>
    BY <1>16 DEF SyncStart
  <2> HIDE DEF clusterVars
  <2>3. TypeOK'
    <3>1. todo' \in [Remotes -> SUBSET {MirrorOf(j, o) : j \in Configured, o \in Originals}]
      <4> DEFINE M == {MirrorOf(j, o) : j \in Configured, o \in Originals}
      <4>1. todo \in [Remotes -> SUBSET M] /\ Stale(i) \subseteq M BY <2>0 DEF TypeOK
      <4> HIDE DEF M
      <4>2. todo' \in [Remotes -> SUBSET M] BY <2>1, <4>1
      <4> QED BY <4>2 DEF M
    <3> QED BY <2>0, <2>1, <2>2, <3>1 DEF TypeOK, MirrorOf, NameOf, Configured, Stages, clusterVars
  <2>4. RunnersLaunched'
    <3>1. \A r \in Runners : stage'[r] # stage[r] => stage[r] = "waiting" /\ stage'[r] = to
      BY <2>0, <2>1, <2>2 DEF TypeOK
    <3> QED BY <2>2, <3>1, LaterLaunched DEF clusterVars
  <2>5. RunnersWork'
    <3>1. ASSUME NEW j \in Remotes, j # i PROVE
            stage'[<<"mirror", j>>] = stage[<<"mirror", j>>] /\ todo'[j] = todo[j]
      BY <2>0, <2>1, <3>1 DEF TypeOK, Runners
    <3>2. stage'[<<"mirror", i>>] = to /\ (to # "syncing" => todo'[i] = todo[i])
      BY <2>0, <2>1 DEF TypeOK
    <3> QED BY <2>2, <3>1, <3>2 DEF RunnersWork, Works
  <2> QED BY <2>3, <2>4, <2>5
<1>17. ASSUME NEW i \in Remotes, NEW m \in todo[i], SyncDelete(i, m) PROVE IInv'
  <2> USE <1>17 DEF SyncDelete
  <2>1. TypeOK' BY DEF TypeOK, MirrorOf, NameOf, Configured
  <2>2. RunnersLaunched' BY SameLaunched
  <2>3. RunnersWork'
    <3> SUFFICES ASSUME NEW j \in Remotes PROVE Works(j)' BY DEF RunnersWork
    <3>1. <<"mirror", j>> \in Runners BY DEF Runners
    <3> QED BY <3>1 DEF TypeOK, RunnersWork, Works, Runners
  <2> QED BY <2>1, <2>2, <2>3
<1>18. ASSUME NEW i \in Remotes, SyncAbort(i) \/ SyncDone(i) PROVE IInv'
  <2>0. <<"mirror", i>> \in Runners BY DEF Runners
  <2>1. /\ stage[<<"mirror", i>>] = "syncing"
        /\ stage' = [stage EXCEPT ![<<"mirror", i>>] = "running"]
        /\ mirrors' \subseteq mirrors
        /\ todo' \in [Remotes -> SUBSET {MirrorOf(j, o) : j \in Configured, o \in Originals}]
        /\ todo'[i] = {} /\ \A j \in Remotes : j # i => todo'[j] = todo[j]
        /\ UNCHANGED <<main, next, runners, initialised, listed, cache, due, doing, key,
                       config, originals, answering, left>>
    BY <1>18 DEF SyncAbort, SyncDone, TypeOK
  <2>5. stage \in [Runners -> Stages] BY DEF TypeOK
  <2>2. TypeOK' BY <2>0, <2>1 DEF TypeOK, MirrorOf, NameOf, Configured, Stages
  <2>3. RunnersLaunched'
    <3>1. \A r \in Runners : stage'[r] # stage[r] => stage[r] = "syncing" /\ stage'[r] = "running"
      BY <2>0, <2>1, <2>5
    <3> QED BY <2>1, <3>1, LaterLaunched
  <2>4. RunnersWork'
    <3> SUFFICES ASSUME NEW j \in Remotes PROVE Works(j)' BY DEF RunnersWork
    <3>1. Works(i) /\ Works(j) BY DEF RunnersWork
    <3>2. <<"mirror", j>> \in Runners BY DEF Runners
    <3>3. j # i => stage'[<<"mirror", j>>] = stage[<<"mirror", j>>] BY <2>0, <2>1, <2>5, <3>2
    <3>4. stage'[<<"mirror", i>>] = "running" BY <2>0, <2>1, <2>5
    <3> QED BY <2>1, <3>1, <3>3, <3>4 DEF Works
  <2> QED BY <2>2, <2>3, <2>4
<1>19. ASSUME NEW i \in Remotes, NEW o \in Originals, Begin(i, o) PROVE IInv'
  <2> USE <1>19 DEF Begin
  <2>1. TypeOK' BY DEF TypeOK, MirrorOf, NameOf, Configured
  <2>2. RunnersLaunched' BY SameLaunched
  <2>3. RunnersWork'
    <3> SUFFICES ASSUME NEW j \in Remotes PROVE Works(j)' BY DEF RunnersWork
    <3>1. <<"mirror", j>> \in Runners BY DEF Runners
    <3> QED BY <3>1 DEF TypeOK, RunnersWork, Works, Runners
  <2> QED BY <2>1, <2>2, <2>3
<1>20. ASSUME NEW i \in Remotes, Reconcile(i) \/ ReconcileFails(i) PROVE IInv'
  <2>0. doing[i] # "idle" BY <1>20 DEF Reconcile, ReconcileFails
  <2>1. /\ Return(i) /\ mirrors' \in {mirrors, Written(i)}
        /\ due' \in {due, [due EXCEPT ![i] = @ \cup {key[i]}]}
    BY <1>20 DEF Reconcile, ReconcileFails
  <2> USE <2>1 DEF Return
  <2>2. TypeOK'
    <3>1. mirrors' \subseteq {MirrorOf(j, o) : j \in Configured, o \in Originals}
      BY <2>0, WrittenType DEF TypeOK
    <3>2. due' \in [Remotes -> SUBSET Originals] BY <2>0, WrittenType DEF TypeOK
    <3>3. /\ doing' \in [Remotes -> {"idle", "write", "delete"}]
          /\ key' \in [Remotes -> Originals \cup {None}]
          /\ \A j \in Remotes : doing'[j] # "idle" => key'[j] \in Originals
      BY DEF TypeOK
    <3> QED BY <3>1, <3>2, <3>3 DEF TypeOK, MirrorOf, NameOf, Configured
  <2>3. RunnersLaunched' BY SameLaunched
  <2>4. RunnersWork'
    <3> SUFFICES ASSUME NEW j \in Remotes PROVE Works(j)' BY DEF RunnersWork
    <3>1. <<"mirror", j>> \in Runners BY DEF Runners
    <3> QED BY <3>1 DEF TypeOK, RunnersWork, Works, Runners
  <2> QED BY <2>2, <2>3, <2>4
<1>21. CASE UNCHANGED vars
  <2> USE <1>21 DEF vars
  <2>1. TypeOK' BY DEF TypeOK, MirrorOf, NameOf, Configured
  <2>2. RunnersLaunched' BY SameLaunched
  <2>3. RunnersWork' BY DEF RunnersWork, Works
  <2> QED BY <2>1, <2>2, <2>3
<1>22. \A c \in Clusters : <<"global", c>> \in Runners BY DEF Runners
<1>23. \A i \in Remotes : <<"mirror", i>> \in Runners BY DEF Runners
<1> QED BY <1>1, <1>2, <1>3, <1>4, <1>5, <1>6, <1>7, <1>8, <1>9, <1>10, <1>11, <1>12, <1>13,
           <1>14, <1>15, <1>16, <1>17, <1>18, <1>19, <1>20, <1>21, <1>22, <1>23
        DEF Next, Main, MirrorRunner, GlobalRunner

\* main and the runners it starts: both parts of the invariant hold for ever.
THEOREM Invariance == Spec => []IInv
BY InitIInv, StepIInv, PTL DEF Spec

\* Every variable stays in its range; past parseConfig the config is complete,
\* and every mirror is one that a configured remote makes.
THEOREM TypeCorrect == Spec => []TypeOK
BY Invariance, PTL DEF IInv

\* The health handler answers OK only if the watchers of every configured
\* cluster run.
THEOREM HealthIsHonest == Spec => []HealthyMeansStarted
<1>1. IInv => HealthyMeansStarted
  <2> SUFFICES ASSUME IInv, Healthy,
                      NEW r \in ({"global"} \X (Configured \cup {Local}))
                                    \cup ({"mirror"} \X Configured)
               PROVE  stage[r] \notin {"none", "spawned"}
    BY DEF HealthyMeansStarted
  <2>1. main = "serving" /\ next = Len(config.remotes) + 1
    BY ConfigType DEF IInv, TypeOK, RunnersLaunched, Healthy
  <2>2. r \in Launched BY <2>1, ConfigType DEF Launched, IInv, TypeOK
  <2>3. r \in initialised /\ r \in Runners
    BY <2>2, ConfigType DEF IInv, RunnersLaunched, Healthy, TypeOK
  <2> QED BY <2>3 DEF IInv, RunnersLaunched
<1> QED BY <1>1, Invariance, PTL

-----------------------------------------------------------------------------
\* If the prefixes are apart, a mirror name has one owner.
LEMMA OneOwner ==
    ASSUME config \in Files, OwnersApart,
           NEW i \in Configured, NEW o \in Originals,
           NEW j \in Configured, NEW u \in Originals,
           NameOf(i, o) = NameOf(j, u)
    PROVE  i = j /\ o = u
<1>1. /\ o \in [namespace : Seq(Part), name : Seq(Part)]
      /\ u \in [namespace : Seq(Part), name : Seq(Part)]
  BY ConstantsAssumption
<1>2. config.remotes[i].prefix \in Seq(Part) /\ config.remotes[j].prefix \in Seq(Part)
  BY ConfigType
<1>3. i = j
  <2> SUFFICES ASSUME i # j PROVE FALSE OBVIOUS
  <2>1. Apart(config.remotes[i].prefix, config.remotes[j].prefix) BY DEF OwnersApart
  <2> QED BY <1>1, <1>2, <2>1, ApartNamesDiffer DEF NameOf
<1>4. Plain(o.namespace) /\ Plain(u.namespace) BY DEF OwnersApart
<1>5. o.namespace = u.namespace /\ o.name = u.name
  <2> DEFINE p == config.remotes[i].prefix
             s1 == o.namespace
             n1 == o.name
             s2 == u.namespace
             n2 == u.name
  <2>1. MirrorName(p, s1, n1) = MirrorName(p, s2, n2) BY <1>3 DEF NameOf
  <2>2. /\ p \in Seq(Part) /\ s1 \in Seq(Part) /\ n1 \in Seq(Part)
        /\ s2 \in Seq(Part) /\ n2 \in Seq(Part)
    BY <1>1, <1>2
  <2>3. Plain(s1) /\ Plain(s2) BY <1>4
  <2> HIDE DEF p, s1, n1, s2, n2
  <2>4. s1 = s2 /\ n1 = n2 BY <2>1, <2>2, <2>3, SeparatorTellsNames
  <2> QED BY <2>4 DEF s1, n1, s2, n2
<1> QED BY <1>1, <1>3, <1>5

\* What a mirror runner is about to do agrees with its copy of the cluster, or it
\* has been told to look again.
JobIsCurrent(i) ==
    doing[i] # "idle" /\ key[i] \notin due[i] => (doing[i] = "write" <=> key[i] \in cache[i])

SyncIsCurrent(i) ==
    /\ \A m \in todo[i] : m.prefix = config.remotes[i].prefix
    /\ \A o \in Originals : MirrorOf(i, o) \in todo[i] => o \notin cache[i] \/ o \in due[i]

WorkIsCurrent == \A i \in Remotes : JobIsCurrent(i) /\ SyncIsCurrent(i)

\* A step that leaves the copies and the work alone leaves that too.
LEMMA SameWork ==
    ASSUME WorkIsCurrent, config' = config, UNCHANGED <<cache, due, doing, key, todo>>
    PROVE  WorkIsCurrent'
BY DEF WorkIsCurrent, JobIsCurrent, SyncIsCurrent, MirrorOf, NameOf

\* An event that changes the copy queues its key in the same step.
LEMMA StepWorkIsCurrent ==
    ASSUME IInv, [Next]_vars, WorkIsCurrent
    PROVE  WorkIsCurrent'
<1> USE DEF IInv, clusterVars, processVars, syncVars
<1>1. config' = config BY ConfigStays
<1>2. /\ cache \in [Remotes -> SUBSET Originals] /\ due \in [Remotes -> SUBSET Originals]
      /\ doing \in [Remotes -> {"idle", "write", "delete"}]
      /\ key \in [Remotes -> Originals \cup {None}]
      /\ DOMAIN todo = Remotes
  BY DEF TypeOK
<1>3. ASSUME NEW j \in Remotes PROVE Works(j) /\ JobIsCurrent(j) /\ SyncIsCurrent(j)
  BY DEF RunnersWork, WorkIsCurrent
<1>4. CASE Exit
  <2>1. \A j \in Remotes : doing'[j] = "idle" /\ todo'[j] = {} BY <1>4 DEF Exit, Each
  <2> QED BY <2>1 DEF WorkIsCurrent, JobIsCurrent, SyncIsCurrent
<1>5. CASE UNCHANGED <<cache, due, doing, key, todo>>
  BY <1>1, <1>5, SameWork
<1>6. CASE Main \/ ListenFails \/ Crash
  <2>1. Exit \/ UNCHANGED syncVars
    BY <1>6 DEF Main, ListenFails, Crash, ParseConfig, Restart, StartLocal, StartRemote,
                ListenAndServe, Fail
  <2> QED BY <1>4, <1>5, <2>1
<1>7. CASE \E c \in Clusters : GlobalRunner(c) \/ Outage(c) \/ Answer(c)
  BY <1>5, <1>7 DEF GlobalRunner, Run, GlobalSynced, Outage, Answer
<1>8. ASSUME NEW i \in Remotes,
             Run(<<"mirror", i>>) \/ ListMirrors(i) \/ SyncDone(i)
             \/ \E o \in Originals : Change(i, o)
      PROVE  WorkIsCurrent'
  BY <1>5, <1>8 DEF Run, ListMirrors, SyncDone, Change
<1>9. ASSUME NEW i \in Remotes, ListServices(i) PROVE WorkIsCurrent'
  <2> SUFFICES ASSUME NEW j \in Remotes PROVE JobIsCurrent(j)' /\ SyncIsCurrent(j)'
    BY DEF WorkIsCurrent
  <2>1. doing[i] = "idle" /\ todo[i] = {} BY <1>3, <1>9 DEF ListServices, Works
  <2>2. UNCHANGED <<doing, key, todo>> /\ \A k \in Remotes : k # i => cache'[k] = cache[k] /\ due'[k] = due[k]
    BY <1>2, <1>9 DEF ListServices
  <2> QED BY <1>1, <1>3, <2>1, <2>2 DEF JobIsCurrent, SyncIsCurrent, MirrorOf, NameOf
<1>10. ASSUME NEW i \in Remotes, NEW o \in Originals, Deliver(i, o) PROVE WorkIsCurrent'
  <2> SUFFICES ASSUME NEW j \in Remotes PROVE JobIsCurrent(j)' /\ SyncIsCurrent(j)'
    BY DEF WorkIsCurrent
  <2>1. /\ UNCHANGED <<doing, key, todo>>
        /\ \A k \in Remotes : k # i => cache'[k] = cache[k] /\ due'[k] = due[k]
        /\ due'[i] = due[i] \cup {o}
        /\ \A u \in Originals : u # o => (u \in cache'[i] <=> u \in cache[i])
    BY <1>2, <1>10 DEF Deliver, Toggle
  <2>2. doing[j] # "idle" => key[j] \in Originals BY DEF TypeOK
  <2>3. JobIsCurrent(j)' BY <1>3, <2>1, <2>2 DEF JobIsCurrent
  <2>4. SyncIsCurrent(j)' BY <1>1, <1>3, <2>1 DEF SyncIsCurrent, MirrorOf, NameOf
  <2> QED BY <2>3, <2>4
<1>11. ASSUME NEW i \in Remotes, SyncStart(i) PROVE WorkIsCurrent'
  <2> SUFFICES ASSUME NEW j \in Remotes PROVE JobIsCurrent(j)' /\ SyncIsCurrent(j)'
    BY DEF WorkIsCurrent
  <2>1. UNCHANGED <<doing, key, cache, due>> BY <1>11 DEF SyncStart
  <2>2. todo'[j] = todo[j] \/ (j = i /\ todo'[i] = Stale(i)) BY <1>2, <1>11 DEF SyncStart
  <2>3. JobIsCurrent(j)' BY <1>3, <2>1 DEF JobIsCurrent
  <2>4. CASE todo'[j] = todo[j]
    BY <1>1, <1>3, <2>1, <2>3, <2>4 DEF SyncIsCurrent, MirrorOf, NameOf
  <2>5. CASE j = i /\ todo'[i] = Stale(i)
    <3>1. \A o \in Originals : MirrorOf(i, o) \in Stale(i) => o \notin cache[i]
      BY DEF Stale, MirrorOf
    <3>2. \A m \in Stale(i) : m.prefix = config.remotes[i].prefix BY DEF Stale
    <3> QED BY <1>1, <2>1, <2>3, <2>5, <3>1, <3>2 DEF SyncIsCurrent, MirrorOf, NameOf
  <2> QED BY <2>2, <2>4, <2>5
<1>12. ASSUME NEW i \in Remotes, SyncAbort(i) \/ \E m \in todo[i] : SyncDelete(i, m)
       PROVE  WorkIsCurrent'
  <2> SUFFICES ASSUME NEW j \in Remotes PROVE JobIsCurrent(j)' /\ SyncIsCurrent(j)'
    BY DEF WorkIsCurrent
  <2>1. UNCHANGED <<doing, key, cache, due>> /\ todo'[j] \subseteq todo[j]
    BY <1>2, <1>12 DEF SyncAbort, SyncDelete
  <2> QED BY <1>1, <1>3, <2>1 DEF JobIsCurrent, SyncIsCurrent, MirrorOf, NameOf
<1>13. ASSUME NEW i \in Remotes, NEW o \in Originals, Begin(i, o) PROVE WorkIsCurrent'
  <2> SUFFICES ASSUME NEW j \in Remotes PROVE JobIsCurrent(j)' /\ SyncIsCurrent(j)'
    BY DEF WorkIsCurrent
  <2>1. /\ UNCHANGED <<cache, todo>> /\ todo[i] = {}
        /\ key'[i] = o /\ (doing'[i] = "write" <=> o \in cache[i])
    BY <1>2, <1>3, <1>13 DEF Begin, Works
  <2>2. j # i => due'[j] = due[j] /\ doing'[j] = doing[j] /\ key'[j] = key[j]
    BY <1>2, <1>13 DEF Begin
  <2> QED BY <1>1, <1>3, <2>1, <2>2 DEF JobIsCurrent, SyncIsCurrent, MirrorOf, NameOf
<1>14. ASSUME NEW i \in Remotes, Reconcile(i) \/ ReconcileFails(i) PROVE WorkIsCurrent'
  <2> SUFFICES ASSUME NEW j \in Remotes PROVE JobIsCurrent(j)' /\ SyncIsCurrent(j)'
    BY DEF WorkIsCurrent
  <2>1. UNCHANGED <<cache, todo>> /\ doing'[i] = "idle" /\ due[j] \subseteq due'[j]
    BY <1>2, <1>14 DEF Reconcile, ReconcileFails, Return
  <2>2. j # i => due'[j] = due[j] /\ doing'[j] = doing[j] /\ key'[j] = key[j]
    BY <1>2, <1>14 DEF Reconcile, ReconcileFails, Return
  <2> QED BY <1>1, <1>3, <2>1, <2>2 DEF JobIsCurrent, SyncIsCurrent, MirrorOf, NameOf
<1>15. ASSUME NEW i \in Remotes, MirrorRunner(i) PROVE WorkIsCurrent'
  BY <1>8, <1>9, <1>10, <1>11, <1>12, <1>13, <1>14, <1>15 DEF MirrorRunner
<1> QED BY <1>5, <1>6, <1>7, <1>8, <1>15 DEF Next, vars

\* A mirror whose name has one owner goes only by a step of that owner's own
\* worker or startup sync, which either decided so by a copy without the service,
\* or has been told to look again.
LEMMA StepKeepsMirror ==
    ASSUME IInv, WorkIsCurrent, [Next]_vars, OwnersApart,
           NEW i \in Configured, NEW o \in Originals, HasMirror(i, o), ~HasMirror(i, o)'
    PROVE  /\ doing'[i] # doing[i] \/ todo'[i] # todo[i]
           /\ o \in due'[i] \/ ("services" \in listed'[i] /\ o \notin cache'[i])
<1> USE DEF IInv
<1>1. config' = config BY ConfigStays
<1>2. i \in Remotes /\ config \in Files BY ConfigType DEF TypeOK
<1>3. PICK m \in mirrors : m.name = NameOf(i, o) BY DEF HasMirror
<1>4. m = MirrorOf(i, o)
  <2>1. PICK j \in Configured, u \in Originals : m = MirrorOf(j, u) BY DEF TypeOK
  <2>2. NameOf(j, u) = NameOf(i, o) BY <2>1, <1>3 DEF MirrorOf
  <2> QED BY <2>1, <2>2, <1>2, OneOwner
<1>5. m \notin mirrors' BY <1>1, <1>3 DEF HasMirror, NameOf
<1>6. /\ doing \in [Remotes -> {"idle", "write", "delete"}] /\ due \in [Remotes -> SUBSET Originals]
      /\ DOMAIN todo = Remotes
  BY DEF TypeOK
<1>7. ASSUME NEW j \in Remotes PROVE Works(j) /\ JobIsCurrent(j) /\ SyncIsCurrent(j)
  BY DEF RunnersWork, WorkIsCurrent
<1>8. ASSUME NEW j \in Remotes, SyncAbort(j) \/ \E n \in todo[j] : SyncDelete(j, n)
      PROVE  /\ todo'[i] # todo[i]
             /\ o \in due'[i] \/ ("services" \in listed'[i] /\ o \notin cache'[i])
  <2>1. /\ m \in todo[j] /\ todo'[j] # todo[j] /\ UNCHANGED <<listed, cache, due>>
        /\ stage[<<"mirror", j>>] = "syncing"
    BY <1>5, <1>6, <1>8 DEF SyncAbort, SyncDelete
  <2>2. j \in Configured BY <2>1, RunningIsConfigured
  <2>3. j = i
    <3> SUFFICES ASSUME j # i PROVE FALSE OBVIOUS
    <3>1. Apart(config.remotes[i].prefix, config.remotes[j].prefix) BY <2>2 DEF OwnersApart
    <3>2. config.remotes[i].prefix # config.remotes[j].prefix BY <3>1 DEF Apart
    <3>3. m.prefix = config.remotes[j].prefix BY <1>7, <2>1 DEF SyncIsCurrent
    <3> QED BY <1>4, <3>2, <3>3 DEF MirrorOf
  <2>4. "services" \in listed[i] BY <1>7, <2>1, <2>3 DEF Works
  <2>5. o \notin cache[i] \/ o \in due[i] BY <1>4, <1>7, <2>1, <2>3 DEF SyncIsCurrent
  <2> QED BY <2>1, <2>3, <2>4, <2>5
<1>9. ASSUME NEW j \in Remotes, Reconcile(j) \/ ReconcileFails(j)
      PROVE  /\ doing'[i] # doing[i]
             /\ o \in due'[i] \/ ("services" \in listed'[i] /\ o \notin cache'[i])
  <2>1. /\ doing[j] # "idle" /\ m \notin Written(j) /\ doing'[j] = "idle"
        /\ UNCHANGED <<listed, cache>> /\ due[j] \subseteq due'[j]
    BY <1>5, <1>6, <1>9 DEF Reconcile, ReconcileFails, Return
  <2>2. j \in Configured /\ key[j] \in Originals BY <2>1, WrittenType
  <2>3. doing[j] = "delete" /\ m.name = NameOf(j, key[j]) BY <2>1 DEF Written
  <2>4. j = i /\ key[j] = o
    <3> DEFINE u == key[j]
    <3>1. u \in Originals /\ NameOf(j, u) = NameOf(i, o) BY <1>3, <2>2, <2>3
    <3> HIDE DEF u
    <3>2. i = j /\ o = u BY <1>2, <2>2, <3>1, OneOwner
    <3> QED BY <3>2 DEF u
  <2>5. "services" \in listed[i] BY <1>7, <2>1, <2>4 DEF Works
  <2>6. o \notin due[i] => o \notin cache[i] BY <1>7, <2>3, <2>4 DEF JobIsCurrent
  <2> QED BY <2>1, <2>4, <2>5, <2>6
<1>10. ASSUME NEW j \in Remotes, MirrorRunner(j),
              ~(Reconcile(j) \/ ReconcileFails(j)),
              ~(SyncAbort(j) \/ \E n \in todo[j] : SyncDelete(j, n))
       PROVE  FALSE
  BY <1>5, <1>10 DEF MirrorRunner, Run, ListServices, Deliver, ListMirrors, SyncStart, SyncDone,
                     Begin, clusterVars
<1>11. ASSUME Main \/ ListenFails \/ Crash PROVE FALSE
  BY <1>5, <1>11 DEF Main, Restart, ParseConfig, StartLocal, StartRemote, ListenAndServe,
                     ListenFails, Crash, Fail, Exit, clusterVars
<1>12. ASSUME NEW c \in Clusters, GlobalRunner(c) \/ Outage(c) \/ Answer(c) PROVE FALSE
  BY <1>5, <1>12 DEF GlobalRunner, Run, GlobalSynced, Outage, Answer, clusterVars
<1>13. ASSUME NEW j \in Remotes, NEW u \in Originals, Change(j, u) PROVE FALSE
  BY <1>5, <1>13 DEF Change
<1>14. CASE UNCHANGED vars BY <1>5, <1>14 DEF vars, clusterVars
<1> QED BY <1>8, <1>9, <1>10, <1>11, <1>12, <1>13, <1>14 DEF Next

\* With that, the work is current for ever.
THEOREM WorkStaysCurrent == Spec => []WorkIsCurrent
<1>1. Init => WorkIsCurrent
  BY DEF Init, Each, WorkIsCurrent, JobIsCurrent, SyncIsCurrent
<1> QED BY <1>1, StepWorkIsCurrent, Invariance, PTL DEF Spec

\* Under prefixes that are apart and namespaces without the separator, no runner
\* takes the mirror of a service of another cluster, and its own runner takes it
\* only on an older copy and with the key still to come: for every config,
\* interleaving, restart and outage.
THEOREM MirrorsAreNotTaken == Spec => NoMirrorIsTaken
<1>1. IInv /\ WorkIsCurrent /\ [Next]_vars =>
        [OwnersApart =>
            \A i \in Configured : \A o \in originals[i] : HasMirror(i, o) =>
                \/ HasMirror(i, o)'
                \/ /\ doing'[i] # doing[i] \/ todo'[i] # todo[i]
                   /\ o \in due'[i] \/ ("services" \in listed'[i] /\ o \notin cache'[i])]_vars
  <2> SUFFICES ASSUME IInv, WorkIsCurrent, [Next]_vars, OwnersApart,
                      NEW i \in Configured, NEW o \in originals[i],
                      HasMirror(i, o), ~HasMirror(i, o)'
               PROVE  /\ doing'[i] # doing[i] \/ todo'[i] # todo[i]
                      /\ o \in due'[i] \/ ("services" \in listed'[i] /\ o \notin cache'[i])
    OBVIOUS
  <2>1. o \in Originals BY ConfigType DEF IInv, TypeOK
  <2> QED BY <2>1, StepKeepsMirror
<1> QED BY <1>1, Invariance, WorkStaysCurrent, PTL DEF Spec, NoMirrorIsTaken

-----------------------------------------------------------------------------
\* What a runner's informer has told it of and its queue has done with has its
\* mirror, before the startup sync too.
Done(i) == cache[i] \ (due[i] \cup {key[i]})

SeenIsMirrored ==
    \A i \in Configured : "services" \in listed[i] => \A o \in Done(i) : HasMirror(i, o)

\* A service that a step adds to what a queue has done with gets its mirror by it.
LEMMA StepSeenIsMirrored ==
    ASSUME IInv, WorkIsCurrent, [Next]_vars, OwnersApart, SeenIsMirrored
    PROVE  SeenIsMirrored'
<1> USE DEF IInv, clusterVars, processVars, syncVars
<1>1. config' = config /\ Configured' = Configured BY ConfigStays
<1> SUFFICES ASSUME NEW i \in Configured, "services" \in listed'[i],
                    NEW o \in cache'[i], o \notin due'[i], o # key'[i], ~HasMirror(i, o)'
             PROVE  FALSE
  BY <1>1 DEF SeenIsMirrored, Done
<1>2. /\ i \in Remotes /\ config \in Files BY ConfigType DEF TypeOK
<1>3. /\ cache \in [Remotes -> SUBSET Originals] /\ due \in [Remotes -> SUBSET Originals]
      /\ doing \in [Remotes -> {"idle", "write", "delete"}]
      /\ key \in [Remotes -> Originals \cup {None}]
      /\ listed \in [Remotes -> SUBSET {"services", "mirrors"}]
      /\ originals \in [Remotes -> SUBSET Originals]
  BY DEF TypeOK
<1>4. o \notin Originals \/ ~HasMirror(i, o) BY StepKeepsMirror
<1>5. "services" \in listed[i] /\ o \in Originals => o \notin Done(i)
  BY <1>4 DEF SeenIsMirrored
<1>6. ASSUME listed'[i] = listed[i], cache'[i] = cache[i], due[i] \subseteq due'[i], key'[i] = key[i]
      PROVE  FALSE
  BY <1>2, <1>3, <1>5, <1>6 DEF Done
<1>7. CASE Exit BY <1>2, <1>7 DEF Exit, Each
<1>8. CASE Main \/ ListenFails \/ Crash
  <2>1. Exit \/ UNCHANGED syncVars
    BY <1>8 DEF Main, ListenFails, Crash, ParseConfig, Restart, StartLocal, StartRemote,
                ListenAndServe, Fail
  <2> QED BY <1>6, <1>7, <2>1
<1>9. CASE \E c \in Clusters : GlobalRunner(c) \/ Outage(c) \/ Answer(c)
  BY <1>6, <1>9 DEF GlobalRunner, Run, GlobalSynced, Outage, Answer
<1>10. ASSUME NEW j \in Remotes,
              Run(<<"mirror", j>>) \/ SyncStart(j) \/ SyncDone(j) \/ SyncAbort(j)
              \/ (\E m \in todo[j] : SyncDelete(j, m)) \/ \E u \in Originals : Change(j, u)
       PROVE  FALSE
  BY <1>6, <1>10 DEF Run, SyncStart, SyncDone, SyncAbort, SyncDelete, Change
<1>11. ASSUME NEW j \in Remotes, ListServices(j) PROVE FALSE
  <2>1. CASE j = i
    BY <1>2, <1>3, <1>11, <2>1 DEF ListServices
  <2>2. CASE j # i
    BY <1>2, <1>3, <1>6, <1>11, <2>2 DEF ListServices
  <2> QED BY <2>1, <2>2
<1>12. ASSUME NEW j \in Remotes, ListMirrors(j) PROVE FALSE
  <2>1. "services" \in listed[i] /\ UNCHANGED <<cache, due, key>>
    BY <1>2, <1>3, <1>12 DEF ListMirrors
  <2> QED BY <1>2, <1>3, <1>5, <2>1 DEF Done
<1>13. ASSUME NEW j \in Remotes, NEW u \in Originals, Deliver(j, u) PROVE FALSE
  <2>1. CASE j = i
    <3>1. /\ UNCHANGED <<listed, key>> /\ due'[i] = due[i] \cup {u}
          /\ o # u => (o \in cache'[i] <=> o \in cache[i])
      BY <1>2, <1>3, <1>13, <2>1 DEF Deliver, Toggle
    <3> QED BY <1>2, <1>3, <1>5, <3>1 DEF Done
  <2>2. CASE j # i
    BY <1>2, <1>3, <1>6, <1>13, <2>2 DEF Deliver
  <2> QED BY <2>1, <2>2
<1>14. ASSUME NEW j \in Remotes, NEW u \in Originals, Begin(j, u) PROVE FALSE
  <2>1. CASE j = i
    <3>1. /\ UNCHANGED <<listed, cache>> /\ due'[i] = due[i] \ {u} /\ key'[i] = u
          /\ doing[i] = "idle"
      BY <1>2, <1>3, <1>14, <2>1 DEF Begin
    <3>2. key[i] = None BY <1>2, <3>1 DEF RunnersWork, Works
    <3>3. o \in Originals /\ o # None BY <1>2, <1>3, <3>1, ConstantsAssumption
    <3> QED BY <1>5, <3>1, <3>2, <3>3 DEF Done
  <2>2. CASE j # i
    BY <1>2, <1>3, <1>6, <1>14, <2>2 DEF Begin
  <2> QED BY <2>1, <2>2
<1>15. ASSUME NEW j \in Remotes, Reconcile(j) \/ ReconcileFails(j) PROVE FALSE
  <2>1. CASE j = i
    <3>1. /\ UNCHANGED <<listed, cache>> /\ due[i] \subseteq due'[i] /\ doing[i] # "idle"
          /\ Reconcile(i) \/ due'[i] = due[i] \cup {key[i]}
      BY <1>2, <1>3, <1>15, <2>1 DEF Reconcile, ReconcileFails, Return
    <3>2. o = key[i] /\ o \in Originals BY <1>2, <1>3, <1>5, <3>1 DEF Done
    <3>3. Reconcile(i) /\ o \notin due[i] /\ o \in cache[i] BY <3>1, <3>2
    <3>4. doing[i] = "write" BY <1>2, <3>1, <3>2, <3>3 DEF WorkIsCurrent, JobIsCurrent
    <3>5. MirrorOf(i, o).name = NameOf(i, o) BY DEF MirrorOf
    <3>6. \E m \in Written(i) : m.name = NameOf(i, o) BY <3>2, <3>4, <3>5 DEF Written
    <3>7. mirrors' = Written(i) BY <3>3 DEF Reconcile
    <3> QED BY <1>1, <3>6, <3>7 DEF HasMirror, NameOf
  <2>2. CASE j # i
    BY <1>2, <1>3, <1>6, <1>15, <2>2 DEF Reconcile, ReconcileFails, Return
  <2> QED BY <2>1, <2>2
<1>16. CASE UNCHANGED vars BY <1>6, <1>16 DEF vars
<1> QED BY <1>8, <1>9, <1>10, <1>11, <1>12, <1>13, <1>14, <1>15, <1>16 DEF Next, MirrorRunner

\* Whatever the other runners' startup syncs and workers do, a service that a
\* running runner's queue has done with has its mirror, if the prefixes are apart.
THEOREM DoneServicesAreMirrored == Spec => []DoneIsMirrored
<1>1. Init => (OwnersApart => SeenIsMirrored)
  <2> SUFFICES ASSUME Init, NEW i \in Configured PROVE "services" \notin listed[i]
    BY DEF SeenIsMirrored
  <2>1. i \in Remotes BY ConfigType DEF Init
  <2> QED BY <2>1 DEF Init, Each
<1>2. IInv /\ WorkIsCurrent /\ (OwnersApart => SeenIsMirrored) /\ [Next]_vars =>
        (OwnersApart => SeenIsMirrored)'
  <2>1. [Next]_vars => OwnersApart' = OwnersApart BY ConfigStays DEF OwnersApart
  <2> QED BY <2>1, StepSeenIsMirrored
<1>3. IInv /\ (OwnersApart => SeenIsMirrored) => DoneIsMirrored
  <2> SUFFICES ASSUME IInv, OwnersApart, SeenIsMirrored,
                      NEW i \in Configured, stage[<<"mirror", i>>] = "running"
               PROVE  \A o \in Done(i) : HasMirror(i, o)
    BY DEF DoneIsMirrored, Done
  <2>1. i \in Remotes BY ConfigType DEF IInv, TypeOK
  <2>2. "services" \in listed[i] BY <2>1 DEF IInv, RunnersWork, Works
  <2> QED BY <2>2 DEF SeenIsMirrored
<1> QED BY <1>1, <1>2, <1>3, Invariance, WorkStaysCurrent, PTL DEF Spec
=============================================================================
