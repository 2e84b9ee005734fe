----------------------- MODULE RouteAdministrationProofs -----------------------
(***************************************************************************)
(* What TLAPS proves of RouteAdministration, for any number of             *)
(* initializers, kinds, spools, agents, generations, batches and cleanups: *)
(*                                                                         *)
(*   TypeCorrect        every variable has its type                        *)
(*   OverwriteCorrect   an initializer replaces nothing of others          *)
(*   SuccessCorrect     an initializer that succeeds is installed, unless  *)
(*                      it missed a route that came before its own         *)
(*   SessionCorrect     nothing in the spool outlives its session          *)
(*   CleanupCorrect     a cleanup that met no hook removes no feedback     *)
(***************************************************************************)
EXTENDS RouteAdministration, TLAPS

InitPcs == {"route", "read", "again", "look", "create", "settings", "confirm", "final",
            "done", "refused", "killed"}

InitRecords == [pc : InitPcs, held : Directories, found : Routes \union {Nobody},
                seen : Routes \union {Nobody}]

Files == [by : Initializers \union {Nobody, "user"}, route : Routes \union {Nobody}]

RemovalPcs == {"pending", "claimed", "records", "rounds", "session"}
CleanupPcs == {"idle", "look", "look again"} \union RemovalPcs

-------------------------------------------------------------------------------
(***************************************************************************)
(* The initializers.                                                       *)
(***************************************************************************)

\* What initializer i knows of the route: the one that it has compared with its own stays,
\* and once it has created or found one there is one.
Placed(there, i, record) ==
    /\ record.pc \in {"look", "settings", "confirm", "final"} =>
         there = requests[i] \/ record.seen = Nobody
    /\ record.pc \in {"settings", "confirm", "final"} => there # Nobody

\* What the initializers and the files between them are.
SetupInv ==
    /\ requests \in [Initializers -> Routes]
    /\ routes \in [Spools -> Routes \union {Nobody}]
    /\ settings \in [Kinds -> [Directories -> Files]]
    /\ directory \in [Kinds -> Directories]
    /\ inits \in [Initializers -> InitRecords]
    /\ \A i \in Initializers : {inits[i].found, inits[i].seen} \subseteq {Nobody, requests[i]}
    /\ \A i \in Initializers : Placed(routes[Home(i)], i, inits[i])

\* The type of what a request names.
LEMMA RequestTypes ==
  ASSUME SetupInv, NEW i \in Initializers
  PROVE  /\ requests[i] \in Routes /\ requests[i] # Nobody
         /\ Kind(i) \in Kinds /\ Home(i) \in Spools
         /\ inits[i].held \in Directories
         /\ Found(i) \in Files
<1>1. requests[i] \in Routes /\ inits[i].held \in Directories
  BY DEF SetupInv, InitRecords
<1>2. Kind(i) \in Kinds /\ Home(i) \in Spools
  BY <1>1 DEF Kind, Home, Routes
<1>3. settings[Kind(i)] \in [Directories -> Files]
  BY <1>2 DEF SetupInv
<1>4. Found(i) \in Files
  BY <1>1, <1>3 DEF Found
<1> QED
  BY <1>1, <1>2, <1>4, AdministrationAssumption

\* A step of one initializer: its record stays well typed, and the others know what they
\* knew.
LEMMA InitializerStep ==
  ASSUME SetupInv, NEW i \in Initializers,
         UNCHANGED <<requests, directory>>,
         inits' \in [Initializers -> InitRecords],
         \A j \in Initializers \ {i} : inits'[j] = inits[j],
         {inits'[i].found, inits'[i].seen} \subseteq {Nobody, requests[i]},
         routes' \in [Spools -> Routes \union {Nobody}],
         \A s \in Spools : routes[s] # Nobody => routes'[s] = routes[s],
         settings' \in [Kinds -> [Directories -> Files]],
         Placed(routes'[Home(i)], i, inits'[i])
  PROVE  SetupInv'
<1>1. ASSUME NEW j \in Initializers
      PROVE  /\ {inits'[j].found, inits'[j].seen} \subseteq {Nobody, requests'[j]}
             /\ Placed(routes'[Home(j)], j, inits'[j])
  <2>1. CASE j = i
    BY <2>1 DEF SetupInv
  <2>2. CASE j # i
    <3>1. inits'[j] = inits[j]
      BY <2>2
    <3>2. requests[j] # Nobody /\ Home(j) \in Spools
      BY RequestTypes
    <3>3. Placed(routes[Home(j)], j, inits[j])
      BY DEF SetupInv
    <3>4. routes[Home(j)] # Nobody => routes'[Home(j)] = routes[Home(j)]
      BY <3>2
    <3>5. Placed(routes'[Home(j)], j, inits[j])
      BY <3>2, <3>3, <3>4 DEF Placed
    <3> QED
      BY <3>1, <3>5 DEF SetupInv
  <2> QED
    BY <2>1, <2>2
<1>2. ASSUME NEW j \in Initializers
      PROVE  Placed(routes[Home(j)], j, inits[j])'
  BY <1>1 DEF Placed, Home
<1> QED
  BY <1>1, <1>2 DEF SetupInv

\* The initial state.
LEMMA InitSetup == Init => SetupInv
  BY AdministrationAssumption DEF Init, SetupInv, InitRecords, Starting, NoFile, Files,
     InitPcs, Directories, Placed

\* Every step keeps it.
LEMMA NextSetup == SetupInv /\ [Next]_vars => SetupInv'
<1> SUFFICES ASSUME SetupInv, [Next]_vars
             PROVE  SetupInv'
  OBVIOUS
<1>u. ASSUME UNCHANGED setupVars
      PROVE  SetupInv'
  BY <1>u DEF SetupInv, setupVars, Home, Placed
<1>g. ASSUME NEW i \in Initializers, NEW pc \in InitPcs,
             inits' = [inits EXCEPT ![i].pc = pc],
             UNCHANGED <<requests, directory>>,
             routes' \in [Spools -> Routes \union {Nobody}],
             \A s \in Spools : routes[s] # Nobody => routes'[s] = routes[s],
             settings' \in [Kinds -> [Directories -> Files]],
             pc \in {"look", "settings", "confirm", "final"} =>
               routes'[Home(i)] = requests[i] \/ inits[i].seen = Nobody,
             pc \in {"settings", "confirm", "final"} => routes'[Home(i)] # Nobody
      PROVE  SetupInv'
  <2>1. /\ inits \in [Initializers -> InitRecords]
        /\ {inits[i].found, inits[i].seen} \subseteq {Nobody, requests[i]}
    BY <1>g DEF SetupInv
  <2>2. /\ inits' \in [Initializers -> InitRecords]
        /\ inits'[i].pc = pc
        /\ inits'[i].found = inits[i].found /\ inits'[i].seen = inits[i].seen
        /\ \A j \in Initializers \ {i} : inits'[j] = inits[j]
    BY <1>g, <2>1 DEF InitRecords
  <2>3. Placed(routes'[Home(i)], i, inits'[i])
    BY <1>g, <2>2 DEF Placed
  <2> QED
    BY <1>g, <2>1, <2>2, <2>3, InitializerStep
<1>t. /\ routes \in [Spools -> Routes \union {Nobody}]
      /\ settings \in [Kinds -> [Directories -> Files]]
      /\ inits \in [Initializers -> InitRecords]
      /\ \A i \in Initializers : inits[i].pc \in InitPcs
  BY DEF SetupInv, InitRecords
<1>r. ASSUME NEW i \in Initializers, Refuse(i), UNCHANGED <<requests, directory, routes>>,
             settings' \in [Kinds -> [Directories -> Files]]
      PROVE  SetupInv'
  BY <1>g, <1>r, <1>t DEF Refuse, Goes, InitPcs
<1>w. ASSUME NEW i \in Initializers, NEW file \in Files, Write(i, file)
      PROVE  settings' \in [Kinds -> [Directories -> Files]]
  <2>1. Kind(i) \in Kinds /\ inits[i].held \in Directories
    BY <1>w, RequestTypes
  <2> QED
    BY <1>w, <1>t, <2>1 DEF Write
<1>1. ASSUME NEW i \in Initializers, CheckRoute(i)
      PROVE  SetupInv'
  <2>1. UNCHANGED <<requests, directory, routes, settings>>
    BY <1>1 DEF CheckRoute, Init_
  <2>2. CASE Refuse(i)
    BY <1>r, <1>t, <2>1, <2>2
  <2>3. CASE inits' = [inits EXCEPT ![i].pc = "read", ![i].held = directory[Kind(i)]]
    <3>1. /\ directory[Kind(i)] \in Directories
          /\ {inits[i].found, inits[i].seen} \subseteq {Nobody, requests[i]}
      BY <1>1, RequestTypes DEF SetupInv
    <3>2. "read" \in InitPcs /\ "read" \notin {"look", "settings", "confirm", "final"}
      BY DEF InitPcs
    <3>3. /\ inits' \in [Initializers -> InitRecords] /\ inits'[i].pc = "read"
          /\ inits'[i].found = inits[i].found /\ inits'[i].seen = inits[i].seen
          /\ \A j \in Initializers \ {i} : inits'[j] = inits[j]
      BY <1>1, <1>t, <2>3, <3>1, <3>2 DEF InitRecords
    <3>4. Placed(routes'[Home(i)], i, inits'[i])
      BY <3>2, <3>3 DEF Placed
    <3> QED
      BY <2>1, <3>1, <3>2, <3>3, <3>4, <1>t, InitializerStep
  <2> QED
    BY <1>1, <2>2, <2>3 DEF CheckRoute
<1>2. ASSUME NEW i \in Initializers, ReadSettings(i)
      PROVE  SetupInv'
  <2>1. UNCHANGED <<requests, directory, routes, settings>>
    BY <1>2 DEF ReadSettings, Init_
  <2>2. CASE Refuse(i)
    BY <1>r, <1>t, <2>1, <2>2
  <2>3. CASE /\ Found(i) = NoFile \/ Found(i).route = Expected(i)
             /\ inits' = [inits EXCEPT ![i].pc = "again", ![i].found = Found(i).route]
    <3>1. {Found(i).route, inits[i].seen} \subseteq {Nobody, requests[i]}
      BY <1>2, <2>3, RequestTypes DEF NoFile, Expected, SetupInv
    <3>2. "again" \in InitPcs /\ "again" \notin {"look", "settings", "confirm", "final"}
      BY DEF InitPcs
    <3>3. /\ inits' \in [Initializers -> InitRecords] /\ inits'[i].pc = "again"
          /\ inits'[i].found = Found(i).route /\ inits'[i].seen = inits[i].seen
          /\ \A j \in Initializers \ {i} : inits'[j] = inits[j]
      BY <1>2, <1>t, <2>3, <3>1, <3>2, RequestTypes DEF InitRecords
    <3>4. Placed(routes'[Home(i)], i, inits'[i])
      BY <3>2, <3>3 DEF Placed
    <3> QED
      BY <2>1, <3>1, <3>2, <3>3, <3>4, <1>t, InitializerStep
  <2> QED
    BY <1>2, <2>2, <2>3 DEF ReadSettings
<1>3. ASSUME NEW i \in Initializers, CheckRouteAgain(i)
      PROVE  SetupInv'
  <2>1. UNCHANGED <<requests, directory, routes, settings>>
    BY <1>3 DEF CheckRouteAgain, Init_
  <2>2. CASE /\ routes[Home(i)] \in {Nobody, requests[i]}
             /\ inits' = [inits EXCEPT ![i].pc = "look", ![i].seen = routes[Home(i)]]
    <3>1. /\ inits[i].found \in {Nobody, requests[i]} /\ requests[i] \in Routes
          /\ "look" \in InitPcs
      BY <1>3, RequestTypes DEF SetupInv, InitPcs
    <3>2. /\ inits' \in [Initializers -> InitRecords] /\ inits'[i].pc = "look"
          /\ inits'[i].found = inits[i].found /\ inits'[i].seen = routes[Home(i)]
          /\ \A j \in Initializers \ {i} : inits'[j] = inits[j]
      BY <1>3, <1>t, <2>2, <3>1 DEF InitRecords
    <3>3. Placed(routes'[Home(i)], i, inits'[i])
      BY <2>1, <2>2, <3>2 DEF Placed
    <3> QED
      BY <1>t, <2>1, <2>2, <3>1, <3>2, <3>3, InitializerStep
  <2> QED
    BY <1>3, <1>r, <1>t, <2>1, <2>2 DEF CheckRouteAgain
<1>3a. ASSUME NEW i \in Initializers, LookForRoute(i)
       PROVE  SetupInv'
  <2>1. /\ UNCHANGED <<requests, directory, routes, settings>>
        /\ inits[i].pc = "look"
    BY <1>3a DEF LookForRoute, Init_
  <2>2. routes[Home(i)] = requests[i] \/ inits[i].seen = Nobody
    BY <1>3a, <2>1 DEF SetupInv, Placed
  <2>3. CASE routes[Home(i)] = Nobody /\ Goes(i, "create")
    BY <1>g, <1>t, <2>1, <2>3 DEF Goes, InitPcs
  <2>4. CASE routes[Home(i)] # Nobody /\ (Goes(i, "settings") \/ Goes(i, "final"))
    BY <1>g, <1>t, <2>1, <2>2, <2>4 DEF Goes, InitPcs
  <2> QED
    BY <1>3a, <2>3, <2>4 DEF LookForRoute, AfterRoute
<1>4. ASSUME NEW i \in Initializers, CreateRoute(i)
      PROVE  SetupInv'
  <2>1. UNCHANGED <<requests, directory, settings>> /\ routes' = LinkedRoute(i)
    BY <1>4 DEF CreateRoute, Init_
  <2>2. /\ requests[i] \in Routes /\ requests[i] # Nobody /\ Home(i) \in Spools
        /\ inits[i].found \in {Nobody, requests[i]}
    BY <1>4, RequestTypes DEF SetupInv
  <2>3. /\ routes' \in [Spools -> Routes \union {Nobody}]
        /\ \A s \in Spools : routes[s] # Nobody => routes'[s] = routes[s]
    BY <2>1, <2>2, <1>t DEF LinkedRoute
  <2>4. CASE Refuse(i)
    BY <1>g, <1>t, <2>1, <2>3, <2>4 DEF Refuse, Goes, InitPcs
  <2>5. CASE /\ routes'[Home(i)] = requests[i]
             /\ inits' = [inits EXCEPT ![i].pc = AfterRoute(i), ![i].seen = requests[i]]
    <3>1. AfterRoute(i) \in InitPcs
      BY DEF AfterRoute, InitPcs
    <3>2. /\ inits' \in [Initializers -> InitRecords]
          /\ inits'[i].found = inits[i].found /\ inits'[i].seen = requests[i]
          /\ \A j \in Initializers \ {i} : inits'[j] = inits[j]
      BY <1>4, <1>t, <2>2, <2>5, <3>1 DEF InitRecords
    <3>3. Placed(routes'[Home(i)], i, inits'[i])
      BY <2>2, <2>5 DEF Placed
    <3> QED
      BY <1>t, <2>1, <2>2, <2>3, <3>2, <3>3, InitializerStep
  <2> QED
    BY <1>4, <2>4, <2>5 DEF CreateRoute
<1>5. ASSUME NEW i \in Initializers, CreateSettings(i)
      PROVE  SetupInv'
  <2>1. /\ UNCHANGED <<requests, directory, routes>>
        /\ inits[i].pc = "settings"
    BY <1>5 DEF CreateSettings, Init_
  <2>2. /\ routes[Home(i)] = requests[i] \/ inits[i].seen = Nobody
        /\ routes[Home(i)] # Nobody
    BY <1>5, <2>1 DEF SetupInv, Placed
  <2>3. CASE Refuse(i) /\ UNCHANGED settings
    BY <1>r, <1>t, <2>1, <2>3
  <2>4. CASE Goes(i, "final") /\ UNCHANGED settings
    BY <1>g, <1>t, <2>1, <2>2, <2>4, RequestTypes DEF Goes, InitPcs
  <2>5. CASE /\ Write(i, [by |-> i, route |-> Expected(i)])
             /\ Goes(i, "confirm")
    <3>1. [by |-> i, route |-> Expected(i)] \in Files
      BY <1>5, RequestTypes DEF Files, Expected
    <3>2. settings' \in [Kinds -> [Directories -> Files]]
      BY <1>w, <2>5, <3>1
    <3> QED
      BY <1>g, <1>t, <2>1, <2>2, <2>5, <3>2, RequestTypes DEF Goes, InitPcs
  <2> QED
    BY <1>5, <2>3, <2>4, <2>5 DEF CreateSettings
<1>6. ASSUME NEW i \in Initializers, ConfirmSettings(i)
      PROVE  SetupInv'
  <2>1. /\ UNCHANGED <<requests, directory, routes>>
        /\ inits[i].pc = "confirm"
    BY <1>6 DEF ConfirmSettings, Init_
  <2>2. /\ routes[Home(i)] = requests[i] \/ inits[i].seen = Nobody
        /\ routes[Home(i)] # Nobody
    BY <1>6, <2>1 DEF SetupInv, Placed
  <2>3. CASE Goes(i, "final") /\ UNCHANGED settings
    BY <1>g, <1>t, <2>1, <2>2, <2>3, RequestTypes DEF Goes, InitPcs
  <2>4. CASE Refuse(i) /\ (Write(i, NoFile) \/ UNCHANGED settings)
    <3>1. NoFile \in Files
      BY DEF Files, NoFile
    <3>2. settings' \in [Kinds -> [Directories -> Files]]
      BY <1>w, <1>t, <2>4, <3>1
    <3> QED
      BY <1>r, <2>1, <2>4, <3>2
  <2> QED
    BY <1>6, <2>3, <2>4 DEF ConfirmSettings
<1>7. ASSUME NEW i \in Initializers, FinalRead(i)
      PROVE  SetupInv'
  <2>1. UNCHANGED <<requests, directory, routes, settings>>
    BY <1>7 DEF FinalRead, Init_
  <2>2. CASE Goes(i, "done")
    BY <1>g, <1>t, <2>1, <2>2 DEF Goes, InitPcs
  <2> QED
    BY <1>7, <1>r, <1>t, <2>1, <2>2 DEF FinalRead
<1>8. ASSUME NEW i \in Initializers, Kill(i)
      PROVE  SetupInv'
  BY <1>g, <1>t, <1>8 DEF Kill, Init_, Goes, InitPcs
<1>9. ASSUME NEW i \in Initializers, Rerun(i)
      PROVE  SetupInv'
  <2>1. /\ UNCHANGED <<requests, directory, routes, settings>>
        /\ inits' = [inits EXCEPT ![i] = Starting]
    BY <1>9 DEF Rerun, Init_
  <2>2. "route" \in InitPcs /\ "first" \in Directories
        /\ "route" \notin {"look", "settings", "confirm", "final"}
    BY DEF InitPcs, Directories
  <2>3. /\ inits' \in [Initializers -> InitRecords]
        /\ inits'[i] = Starting
        /\ \A j \in Initializers \ {i} : inits'[j] = inits[j]
    BY <1>9, <1>t, <2>1, <2>2 DEF InitRecords, Starting
  <2>4. /\ {inits'[i].found, inits'[i].seen} \subseteq {Nobody, requests[i]}
        /\ Placed(routes'[Home(i)], i, inits'[i])
    BY <2>2, <2>3 DEF Starting, Placed
  <2> QED
    BY <1>9, <2>1, <2>3, <2>4, <1>t, InitializerStep
<1>10. ASSUME NEW k \in Kinds, UserWrites(k)
       PROVE  SetupInv'
  <2>1. PICK file \in {NoFile, Users} : settings' = [settings EXCEPT ![k][directory[k]] = file]
    BY <1>10 DEF UserWrites
  <2>2. file \in Files
    BY DEF Files, NoFile, Users
  <2>3. settings' \in [Kinds -> [Directories -> Files]]
    <3>1. directory[k] \in Directories /\ settings[k] \in [Directories -> Files]
      BY <1>10 DEF SetupInv
    <3> QED
      BY <2>1, <2>2, <3>1, <1>t
  <2> QED
    BY <1>10, <2>3 DEF UserWrites, SetupInv, Home, Placed
<1>11. ASSUME NEW k \in Kinds, UserReplacesDirectory(k)
       PROVE  SetupInv'
  BY <1>11 DEF UserReplacesDirectory, SetupInv, Home, Directories, Placed
<1>12. CASE UNCHANGED vars
  BY <1>u, <1>12 DEF vars
<1> QED
  BY <1>1, <1>2, <1>3, <1>3a, <1>4, <1>5, <1>6, <1>7, <1>8, <1>9, <1>10, <1>11, <1>12, <1>u
  DEF Next, Initialize, StartWatcher, StopWatcher, BeginReview, Publish, Bind, Release,
      Claim, Requeue, Acknowledge, KillHook, Recover, StartCleanup, LookAtPending,
      LookAtClaimed, LookAt, Remove, KillCleanup, Cleaning, Using

-------------------------------------------------------------------------------
\* No step of an initializer changes a route that is there, or settings that are not
\* its own, whatever others, the user and other runs do meanwhile.
THEOREM OverwriteCorrect == Spec => NothingIsOverwritten
<1>1. SetupInv /\ [Next]_vars =>
        [\A i \in Initializers : Initialize(i) =>
           /\ \A s \in Spools : routes[s] # Nobody => routes'[s] = routes[s]
           /\ \A k \in Kinds, d \in Directories :
                settings[k][d].by \notin {Nobody, i} => settings'[k][d] = settings[k][d]]_vars
  <2> SUFFICES ASSUME SetupInv, NEW i \in Initializers, Initialize(i)
               PROVE  /\ \A s \in Spools : routes[s] # Nobody => routes'[s] = routes[s]
                      /\ \A k \in Kinds, d \in Directories :
                           settings[k][d].by \notin {Nobody, i} =>
                             settings'[k][d] = settings[k][d]
    OBVIOUS
  <2>t. /\ routes \in [Spools -> Routes \union {Nobody}]
        /\ settings \in [Kinds -> [Directories -> Files]]
    BY DEF SetupInv
  <2>w. ASSUME NEW file, Write(i, file), Found(i).by \in {Nobody, i}
        PROVE  \A k \in Kinds, d \in Directories :
                 settings[k][d].by \notin {Nobody, i} => settings'[k][d] = settings[k][d]
    <3> SUFFICES ASSUME NEW k \in Kinds, NEW d \in Directories,
                        settings[k][d].by \notin {Nobody, i}
                 PROVE  settings'[k][d] = settings[k][d]
      OBVIOUS
    <3>1. ~ (k = Kind(i) /\ d = inits[i].held)
      BY <2>w DEF Found
    <3> QED
      BY <2>t, <2>w, <3>1 DEF Write
  <2>1. CASE CheckRoute(i) \/ ReadSettings(i) \/ CheckRouteAgain(i) \/ LookForRoute(i)
             \/ FinalRead(i)
    BY <2>1 DEF CheckRoute, ReadSettings, CheckRouteAgain, LookForRoute, FinalRead
  <2>2. CASE CreateRoute(i)
    BY <2>2, <2>t DEF CreateRoute, LinkedRoute
  <2>3. CASE CreateSettings(i)
    BY <2>3, <2>w DEF CreateSettings, NoFile
  <2>4. CASE ConfirmSettings(i)
    BY <2>4, <2>w DEF ConfirmSettings, RemovesOwn
  <2> QED
    BY <2>1, <2>2, <2>3, <2>4 DEF Initialize
<1> QED
  BY <1>1, InitSetup, NextSetup, PTL DEF Spec, NothingIsOverwritten

\* An initializer that reports success has its settings where the agent reads them, and
\* its route in its spool; or it saw no route when it last compared, and another's was
\* there when it looked again.
THEOREM SuccessCorrect == Spec => SuccessIsInstalled
<1>1. SetupInv /\ [Next]_vars =>
        [\A i \in Initializers :
           inits[i].pc # "done" /\ inits'[i].pc = "done" =>
             /\ settings[Kind(i)][directory[Kind(i)]].route = requests[i]
             /\ \/ routes[Home(i)] = requests[i]
                \/ routes[Home(i)] # Nobody /\ inits[i].seen = Nobody]_vars
  <2> SUFFICES ASSUME SetupInv, Next, NEW i \in Initializers,
                      inits[i].pc # "done", inits'[i].pc = "done"
               PROVE  /\ settings[Kind(i)][directory[Kind(i)]].route = requests[i]
                      /\ \/ routes[Home(i)] = requests[i]
                         \/ routes[Home(i)] # Nobody /\ inits[i].seen = Nobody
    OBVIOUS
  <2>t. inits \in [Initializers -> InitRecords]
    BY DEF SetupInv
  <2>1. ASSUME NEW j \in Initializers, Initialize(j)
        PROVE  j = i /\ FinalRead(i) /\ Installed(i)
    <3>1. j = i
      BY <2>1, <2>t DEF Initialize, CheckRoute, ReadSettings, CheckRouteAgain, LookForRoute,
         CreateRoute, CreateSettings, ConfirmSettings, FinalRead, Goes, Refuse
    <3>2. ~ Refuse(i)
      BY <2>t DEF Refuse, Goes, InitRecords
    <3>3. ASSUME NEW pc, Goes(i, pc)
          PROVE  pc = "done"
      BY <2>t, <3>3 DEF Goes, InitRecords
    <3>4. ~ CheckRoute(i)
      BY <2>t, <3>2 DEF CheckRoute, InitRecords
    <3>5. ~ ReadSettings(i)
      BY <2>t, <3>2 DEF ReadSettings, InitRecords
    <3>6. ~ CheckRouteAgain(i)
      BY <2>t, <3>2 DEF CheckRouteAgain, InitRecords
    <3>7. ~ CreateRoute(i) /\ ~ LookForRoute(i)
      BY <2>t, <3>2, <3>3 DEF CreateRoute, LookForRoute, AfterRoute, InitRecords
    <3>8. FinalRead(i)
      BY <2>1, <3>1, <3>2, <3>3, <3>4, <3>5, <3>6, <3>7
      DEF Initialize, CreateSettings, ConfirmSettings
    <3> QED
      BY <3>1, <3>2, <3>8 DEF FinalRead
  <2>2. ASSUME NEW j \in Initializers, Kill(j) \/ Rerun(j)
        PROVE  FALSE
    <3>1. \A k \in Initializers \ {j} : inits'[k] = inits[k]
      BY <2>2, <2>t DEF Kill, Rerun, Goes
    <3>2. inits'[j].pc # "done"
      BY <2>2, <2>t DEF Kill, Rerun, Goes, Starting, InitRecords
    <3> QED
      BY <3>1, <3>2
  <2>3. FinalRead(i) /\ Installed(i)
    BY <2>1, <2>2 DEF Next, UserWrites, UserReplacesDirectory, setupVars, StartWatcher,
       StopWatcher, BeginReview, Publish, Bind, Release, Claim, Requeue, Acknowledge,
       KillHook, Recover, StartCleanup, LookAtPending, LookAtClaimed, LookAt, Remove,
       KillCleanup, Cleaning, Using
  <2> QED
    BY <2>3 DEF FinalRead, Init_, Installed, Attached, Found, Expected, SetupInv, Placed
<1> QED
  BY <1>1, InitSetup, NextSetup, PTL DEF Spec, SuccessIsInstalled

-------------------------------------------------------------------------------
(***************************************************************************)
(* The route in use.                                                       *)
(***************************************************************************)
Stored == spool.pending \union spool.claimed \union spool.records \union {spool.rounds}

Spooled == [pending : SUBSET BatchIds, claimed : SUBSET BatchIds,
            records : SUBSET BatchIds, rounds : BatchIds]

\* The types of the route's state.
UseTypes ==
    /\ session \in [state : {"unbound", "bound", "closed"}, generation : 0 .. MaxGeneration,
                    agent : Agents \union {Nobody}]
    /\ watcher \in [on : BOOLEAN, review : BatchIds]
    /\ spool \in Spooled
    /\ hook \in BatchIds
    /\ cleanup \in [pc : CleanupPcs, discard : BOOLEAN, quiet : BOOLEAN,
                    calls : 0 .. MaxCleanups]
    /\ tenure \in Nat
    /\ published \in 0 .. MaxBatches

\* A batch that is under review has a number of its own, a published one is in one
\* directory, and a hook's batch is among the claims.
BatchesInv ==
    /\ watcher.review # NoBatch =>
         watcher.on /\ watcher.review.id = published /\ published < MaxBatches
    /\ \A b \in spool.pending \union spool.claimed : b # NoBatch /\ b.id < published
    /\ spool.pending \cap spool.claimed = {}
    /\ hook # NoBatch => hook \in spool.claimed

\* A generation is counted from the last cleanup: as long as anything is stored, the
\* sessions that have ended since it was reviewed are the generations since then.
LivesInv ==
    \A b \in Stored \union {watcher.review} :
        b # NoBatch => b.tenure - b.generation = tenure - session.generation

\* What a cleanup has found or removed stays so while it runs, since it excludes the
\* watcher and new claims, and has seen that there was no old one.
CleaningInv ==
    /\ cleanup.pc # "idle" => ~ watcher.on
    /\ cleanup.pc # "idle" /\ (cleanup.discard \/ cleanup.quiet) => hook = NoBatch
    /\ cleanup.pc \in RemovalPcs => hook = NoBatch
    /\ cleanup.pc \in {"look again"} \union RemovalPcs /\ cleanup.quiet /\ ~ cleanup.discard =>
         spool.pending = {}
    /\ cleanup.pc \in RemovalPcs /\ ~ cleanup.discard => spool.claimed = {}
    /\ cleanup.pc \in {"claimed", "records", "rounds", "session"} => spool.pending = {}
    /\ cleanup.pc \in {"records", "rounds", "session"} => spool.claimed = {}
    /\ cleanup.pc \in {"rounds", "session"} => spool.records = {}
    /\ cleanup.pc = "session" => spool.rounds = NoBatch

\* Sessions end by release, at most MaxGeneration times between two cleanups, or by a
\* cleanup, once per call.
TenureInv ==
    /\ tenure <= cleanup.calls * (MaxGeneration + 1) + session.generation
    /\ cleanup.pc # "idle" =>
         /\ cleanup.calls > 0
         /\ tenure <= (cleanup.calls - 1) * (MaxGeneration + 1) + session.generation

UseInv == UseTypes /\ BatchesInv /\ LivesInv /\ CleaningInv /\ TenureInv

\* Multiplication as far as the bound on tenures needs it.
LEMMA TenureArithmetic ==
  ASSUME NEW m \in Nat, NEW c \in Nat, NEW k \in Nat, c <= k
  PROVE  /\ c * (m + 1) \in Nat
         /\ (c + 1) * (m + 1) = c * (m + 1) + m + 1
         /\ c > 0 => c * (m + 1) = (c - 1) * (m + 1) + m + 1
         /\ c * (m + 1) + m <= (m + 1) * (k + 1)
<1>1. /\ c * (m + 1) \in Nat
      /\ (c + 1) * (m + 1) = c * (m + 1) + m + 1
      /\ c > 0 => c * (m + 1) = (c - 1) * (m + 1) + m + 1
  OBVIOUS
<1>2. PICK d \in Nat : k = c + d
  OBVIOUS
<1>3. (m + 1) * (k + 1) = c * (m + 1) + d * (m + 1) + m + 1
  BY <1>2
<1>4. d * (m + 1) \in Nat
  OBVIOUS
<1> QED
  BY <1>1, <1>3, <1>4

\* The initial state.
LEMMA InitUse == Init => UseInv
  BY AdministrationAssumption
  DEF Init, UseInv, UseTypes, BatchesInv, LivesInv, CleaningInv, TenureInv, Unbound, NoBatch,
      IdleCleanup, BatchIds, Spooled, CleanupPcs, Stored, RemovalPcs

\* What each step of the route's use leaves alone.
LEMMA SetupKeepsUse ==
  ASSUME \/ \E i \in Initializers : Initialize(i) \/ Kill(i) \/ Rerun(i)
         \/ \E k \in Kinds : UserWrites(k) \/ UserReplacesDirectory(k)
         \/ UNCHANGED vars
  PROVE  UNCHANGED useVars
  BY DEF Initialize, CheckRoute, ReadSettings, CheckRouteAgain, LookForRoute, CreateRoute,
     CreateSettings,
     ConfirmSettings, FinalRead, Kill, Rerun, UserWrites, UserReplacesDirectory, Init_, vars

\* The order of the removals.
LEMMA RemovalOrder ==
  /\ After("pending") = "claimed" /\ After("claimed") = "records"
  /\ After("records") = "rounds" /\ After("rounds") = "session"
  /\ After("session") = "idle"
  /\ Removed[1] = "pending"
<1>1. /\ Removed[1] = "pending" /\ Removed[2] = "claimed" /\ Removed[3] = "records"
      /\ Removed[4] = "rounds" /\ Removed[5] = "session"
      /\ DOMAIN Removed = 1 .. 5 /\ Len(Removed) = 5
  BY DEF Removed
<1>2. ASSUME NEW n \in 1 .. 5
      PROVE  (CHOOSE m \in DOMAIN Removed : Removed[m] = Removed[n]) = n
  <2>1. \A m \in 1 .. 5 : Removed[m] = Removed[n] => m = n
    BY <1>1, <1>2
  <2>2. \E m \in DOMAIN Removed : Removed[m] = Removed[n]
    BY <1>1
  <2> QED
    BY <1>1, <2>1, <2>2
<1>3. ASSUME NEW n \in 1 .. 5
      PROVE  After(Removed[n]) = IF n = 5 THEN "idle" ELSE Removed[n + 1]
  BY <1>1, <1>2 DEF After
<1>4. /\ After(Removed[1]) = Removed[2] /\ After(Removed[2]) = Removed[3]
      /\ After(Removed[3]) = Removed[4] /\ After(Removed[4]) = Removed[5]
      /\ After(Removed[5]) = "idle"
  BY <1>3
<1> QED
  BY <1>1, <1>4


\* The steps of a route in use, as one disjunction.
UseNext ==
    \/ StartWatcher
    \/ StopWatcher
    \/ BeginReview
    \/ Publish
    \/ \E a \in Agents : Bind(a)
    \/ Release
    \/ \E b \in spool.pending : Claim(b)
    \/ Requeue
    \/ Acknowledge
    \/ KillHook
    \/ \E b \in spool.claimed : Recover(b)
    \/ \E discard \in BOOLEAN : StartCleanup(discard)
    \/ LookAtPending
    \/ LookAtClaimed
    \/ \E pc \in RemovalPcs : Remove(pc)
    \/ KillCleanup

\* Every other step is a stutter for it.
LEMMA NextSplits == [Next]_vars => UseNext \/ UNCHANGED useVars
  BY SetupKeepsUse DEF Next, UseNext, RemovalPcs

\* Where a cleanup goes from each of its places.
LEMMA CleanupGoesOn ==
  ASSUME UseTypes, LookAtPending \/ LookAtClaimed \/ (\E pc \in RemovalPcs : Remove(pc))
  PROVE  /\ cleanup'.pc \in CleanupPcs
         /\ cleanup' \in [pc : CleanupPcs, discard : BOOLEAN, quiet : BOOLEAN,
                          calls : 0 .. MaxCleanups]
         /\ UNCHANGED <<cleanup.discard, cleanup.quiet, cleanup.calls>>
         /\ UNCHANGED <<watcher, hook, published>>
<1>1. PICK pc \in CleanupPcs : CleanupGoes(pc) /\ UNCHANGED <<watcher, hook, published>>
  BY RemovalOrder DEF LookAtPending, LookAtClaimed, LookAt, Remove, Cleaning, RemovalPcs,
     CleanupPcs
<1> QED
  BY <1>1 DEF CleanupGoes, UseTypes

\* What each step does to the files of the spool.
LEMMA SpoolSteps ==
  ASSUME UseTypes
  PROVE  /\ Publish =>
              /\ spool' \in Spooled
              /\ spool.pending \subseteq spool'.pending
              /\ spool'.pending \subseteq spool.pending \union {watcher.review}
              /\ spool'.claimed = spool.claimed
              /\ spool'.records \subseteq spool.records \union {watcher.review}
              /\ spool'.rounds \in {spool.rounds, watcher.review}
         /\ \A b \in spool.pending : Claim(b) =>
              /\ spool' \in Spooled
              /\ spool'.pending = spool.pending \ {b}
              /\ spool'.claimed = spool.claimed \union {b}
              /\ UNCHANGED <<spool.records, spool.rounds>>
         /\ Requeue =>
              /\ spool' \in Spooled
              /\ spool'.pending = spool.pending \union {hook}
              /\ spool'.claimed = spool.claimed \ {hook}
              /\ UNCHANGED <<spool.records, spool.rounds>>
         /\ Acknowledge =>
              /\ spool' \in Spooled
              /\ spool'.claimed = spool.claimed \ {hook}
              /\ UNCHANGED <<spool.pending, spool.records, spool.rounds>>
         /\ \A b \in spool.claimed : Recover(b) =>
              /\ spool' \in Spooled
              /\ spool'.pending = spool.pending \union {b}
              /\ spool'.claimed = spool.claimed \ {b}
              /\ UNCHANGED <<spool.records, spool.rounds>>
<1>t. spool \in Spooled /\ hook \in BatchIds /\ watcher.review \in BatchIds
  BY DEF UseTypes
<1>1. ASSUME Publish
      PROVE  /\ spool' \in Spooled
             /\ spool.pending \subseteq spool'.pending
             /\ spool'.pending \subseteq spool.pending \union {watcher.review}
             /\ spool'.claimed = spool.claimed
             /\ spool'.records \subseteq spool.records \union {watcher.review}
             /\ spool'.rounds \in {spool.rounds, watcher.review}
  <2>1. CASE spool' = spool
    BY <1>t, <2>1 DEF Spooled
  <2>2. CASE spool' = [spool EXCEPT !.rounds = watcher.review,
                           !.pending = @ \union {watcher.review},
                           !.records = @ \union {watcher.review}]
    BY <1>t, <2>2 DEF Spooled
  <2> QED
    BY <1>1, <2>1, <2>2 DEF Publish
<1>2. ASSUME NEW b \in spool.pending, Claim(b)
      PROVE  /\ spool' \in Spooled
             /\ spool'.pending = spool.pending \ {b}
             /\ spool'.claimed = spool.claimed \union {b}
             /\ UNCHANGED <<spool.records, spool.rounds>>
  BY <1>t, <1>2 DEF Claim, Spooled
<1>3. ASSUME Requeue
      PROVE  /\ spool' \in Spooled
             /\ spool'.pending = spool.pending \union {hook}
             /\ spool'.claimed = spool.claimed \ {hook}
             /\ UNCHANGED <<spool.records, spool.rounds>>
  BY <1>t, <1>3 DEF Requeue, RequeuedClaim, Spooled
<1>4. ASSUME Acknowledge
      PROVE  /\ spool' \in Spooled
             /\ spool'.claimed = spool.claimed \ {hook}
             /\ UNCHANGED <<spool.pending, spool.records, spool.rounds>>
  BY <1>t, <1>4 DEF Acknowledge, Spooled
<1>5. ASSUME NEW b \in spool.claimed, Recover(b)
      PROVE  /\ spool' \in Spooled
             /\ spool'.pending = spool.pending \union {b}
             /\ spool'.claimed = spool.claimed \ {b}
             /\ UNCHANGED <<spool.records, spool.rounds>>
  BY <1>t, <1>5 DEF Recover, Spooled
<1> QED
  BY <1>1, <1>2, <1>3, <1>4, <1>5

\* The tenures.
LEMMA NextTenure == UseTypes /\ BatchesInv /\ TenureInv /\ [Next]_vars => TenureInv'
<1> SUFFICES ASSUME UseTypes, BatchesInv, TenureInv, UseNext \/ UNCHANGED useVars
             PROVE  TenureInv'
  BY NextSplits
<1>t. /\ session.generation \in Nat /\ tenure \in Nat /\ cleanup.calls \in Nat
      /\ MaxGeneration \in Nat /\ MaxCleanups \in Nat /\ cleanup.calls <= MaxCleanups
      /\ session.generation <= MaxGeneration
  BY AdministrationAssumption DEF UseTypes
<1>a. /\ cleanup.calls * (MaxGeneration + 1) \in Nat
      /\ (cleanup.calls + 1) * (MaxGeneration + 1)
           = cleanup.calls * (MaxGeneration + 1) + MaxGeneration + 1
      /\ cleanup.calls > 0 =>
           cleanup.calls * (MaxGeneration + 1)
             = (cleanup.calls - 1) * (MaxGeneration + 1) + MaxGeneration + 1
  BY <1>t, TenureArithmetic
<1>1. CASE UNCHANGED <<session.generation, cleanup.pc, cleanup.calls, tenure>>
  BY <1>1 DEF TenureInv
<1>2. CASE StartWatcher \/ StopWatcher \/ BeginReview \/ Publish \/ Requeue \/ Acknowledge
           \/ KillHook
  BY <1>1, <1>2
  DEF StartWatcher, StopWatcher, BeginReview, Publish, Requeue, Acknowledge, KillHook
<1>3. CASE \/ \E a \in Agents : Bind(a)
           \/ \E b \in spool.pending : Claim(b)
           \/ \E b \in spool.claimed : Recover(b)
  BY <1>1, <1>3 DEF Bind, Claim, Recover, UseTypes
<1>4. CASE Release
  <2>1. /\ tenure' = tenure + 1 /\ session'.generation = session.generation + 1
        /\ cleanup' = cleanup /\ cleanup.pc = "idle"
    BY <1>4 DEF Release, Unlocked
  <2>2. \A x \in Nat : tenure <= x + session.generation =>
                         tenure + 1 <= x + (session.generation + 1)
    BY <1>t
  <2>3. tenure' <= cleanup.calls * (MaxGeneration + 1) + session'.generation
    BY <2>1, <2>2, <1>a DEF TenureInv
  <2> QED
    BY <2>1, <2>3 DEF TenureInv
<1>5. ASSUME NEW discard \in BOOLEAN, StartCleanup(discard)
      PROVE  TenureInv'
  <2>1. /\ UNCHANGED <<tenure, session>> /\ cleanup'.calls = cleanup.calls + 1
        /\ cleanup.pc = "idle"
    BY <1>5 DEF StartCleanup, Cleaning
  <2>2. cleanup'.calls - 1 = cleanup.calls /\ cleanup'.calls > 0
    BY <2>1, <1>t
  <2>3. tenure <= cleanup.calls * (MaxGeneration + 1) + session.generation
    BY DEF TenureInv
  <2>4. \A x, y \in Nat : y = x + MaxGeneration + 1 /\ tenure <= x + session.generation =>
                            tenure <= y + session.generation
    BY <1>t
  <2>5. /\ cleanup'.calls * (MaxGeneration + 1) \in Nat
        /\ tenure <= cleanup'.calls * (MaxGeneration + 1) + session.generation
    <3>1. cleanup'.calls * (MaxGeneration + 1) = (cleanup.calls + 1) * (MaxGeneration + 1)
      BY <2>1
    <3>2. (cleanup.calls + 1) * (MaxGeneration + 1) \in Nat
      BY <1>t, TenureArithmetic
    <3> QED
      BY <2>3, <2>4, <3>1, <3>2, <1>a
  <2> QED
    BY <2>1, <2>2, <2>3, <2>5 DEF TenureInv
<1>6. CASE LookAtPending \/ LookAtClaimed
  <2>1. /\ UNCHANGED <<tenure, session, cleanup.calls>>
        /\ cleanup.pc # "idle"
    BY <1>6, CleanupGoesOn DEF LookAtPending, LookAtClaimed, LookAt, Cleaning
  <2> QED
    BY <2>1 DEF TenureInv
<1>7. ASSUME NEW pc \in RemovalPcs, Remove(pc)
      PROVE  TenureInv'
  <2>1. /\ cleanup.pc # "idle" /\ cleanup'.calls = cleanup.calls
    BY <1>7, CleanupGoesOn DEF Remove, Cleaning, RemovalPcs
  <2>2. CASE pc # "session"
    BY <1>7, <2>1, <2>2 DEF Remove, TenureInv
  <2>3. CASE pc = "session"
    <3>1. session'.generation = 0 /\ tenure' = tenure + 1 /\ cleanup'.pc = "idle"
      BY <1>7, <2>3, RemovalOrder DEF Remove, CleanupGoes, Unbound, UseTypes
    <3> QED
      BY <2>1, <3>1, <1>t, <1>a DEF TenureInv
  <2> QED
    BY <2>2, <2>3
<1>8. CASE KillCleanup
  BY <1>8 DEF KillCleanup, CleanupGoes, TenureInv, UseTypes
<1>9. CASE UNCHANGED useVars
  BY <1>1, <1>9 DEF useVars
<1> QED
  BY <1>2, <1>3, <1>4, <1>5, <1>6, <1>7, <1>8, <1>9 DEF UseNext

\* The bound on tenures that TypeOK names.
LEMMA TenureBound ==
  ASSUME UseTypes, TenureInv
  PROVE  tenure \in 0 .. (MaxGeneration + 1) * (MaxCleanups + 1)
<1>1. /\ session.generation \in Nat /\ tenure \in Nat /\ cleanup.calls \in Nat
      /\ MaxGeneration \in Nat /\ MaxCleanups \in Nat /\ cleanup.calls <= MaxCleanups
      /\ session.generation <= MaxGeneration
  BY AdministrationAssumption DEF UseTypes
<1>2. /\ cleanup.calls * (MaxGeneration + 1) \in Nat
      /\ cleanup.calls * (MaxGeneration + 1) + MaxGeneration
           <= (MaxGeneration + 1) * (MaxCleanups + 1)
      /\ (MaxGeneration + 1) * (MaxCleanups + 1) \in Nat
  BY <1>1, TenureArithmetic
<1> QED
  BY <1>1, <1>2 DEF TenureInv

\* The types.
LEMMA NextUseTypes ==
  UseTypes /\ BatchesInv /\ TenureInv /\ [Next]_vars => UseTypes'
<1> SUFFICES ASSUME UseTypes, BatchesInv, TenureInv, UseNext \/ UNCHANGED useVars
             PROVE  UseTypes'
  BY NextSplits
<1>b. NoBatch \in BatchIds
  BY DEF BatchIds
<1>1. CASE StartWatcher \/ StopWatcher
  <2>1. watcher' \in [on : BOOLEAN, review : BatchIds]
    <3>1. CASE StartWatcher
      BY <1>b, <3>1 DEF StartWatcher
    <3>2. CASE StopWatcher
      BY <1>b, <3>2 DEF StopWatcher
    <3> QED
      BY <1>1, <3>1, <3>2
  <2> QED
    BY <1>1, <2>1 DEF StartWatcher, StopWatcher, UseTypes
<1>2. CASE BeginReview
  <2>1. Current \in BatchIds
    BY TenureBound DEF UseTypes, Current, BatchIds
  <2> QED
    BY <1>2, <2>1 DEF BeginReview, UseTypes
<1>3. CASE Publish
  <2>1. published' \in 0 .. MaxBatches
    BY <1>3, AdministrationAssumption DEF Publish, BatchesInv, UseTypes
  <2>2. watcher' \in [on : BOOLEAN, review : BatchIds]
    BY <1>3, <1>b DEF Publish, UseTypes
  <2>3. spool' \in Spooled
    BY <1>3, SpoolSteps
  <2> QED
    BY <1>3, <2>1, <2>2, <2>3 DEF Publish, UseTypes
<1>4. CASE \E a \in Agents : Bind(a)
  BY <1>4 DEF Bind, UseTypes
<1>5. CASE Release
  BY <1>5, AdministrationAssumption DEF Release, UseTypes
<1>6. CASE \E b \in spool.pending : Claim(b)
  <2>1. PICK b \in spool.pending : Claim(b)
    BY <1>6
  <2>2. b \in BatchIds
    BY DEF UseTypes, Spooled
  <2> QED
    BY <2>1, <2>2, SpoolSteps DEF Claim, UseTypes
<1>7. CASE Requeue \/ Acknowledge \/ KillHook
  <2>1. spool' \in Spooled
    BY <1>7, SpoolSteps DEF KillHook, UseTypes
  <2>2. hook' = NoBatch /\ UNCHANGED <<session, watcher, cleanup, tenure, published>>
    BY <1>7 DEF Requeue, Acknowledge, KillHook
  <2> QED
    BY <1>b, <2>1, <2>2 DEF UseTypes
<1>8. CASE \E b \in spool.claimed : Recover(b)
  BY <1>8, SpoolSteps DEF Recover, UseTypes
<1>9. ASSUME NEW discard \in BOOLEAN, StartCleanup(discard)
      PROVE  UseTypes'
  <2>1. cleanup.calls + 1 \in 0 .. MaxCleanups
    BY <1>9, AdministrationAssumption DEF StartCleanup, UseTypes
  <2>2. "look" \in CleanupPcs /\ (hook = NoBatch) \in BOOLEAN
    BY DEF CleanupPcs
  <2>3. cleanup' \in [pc : CleanupPcs, discard : BOOLEAN, quiet : BOOLEAN,
                      calls : 0 .. MaxCleanups]
    BY <1>9, <2>1, <2>2 DEF StartCleanup
  <2> QED
    BY <1>9, <2>3 DEF StartCleanup, Cleaning, UseTypes
<1>10. CASE LookAtPending \/ LookAtClaimed
  <2>1. UNCHANGED <<session, spool, tenure>>
    BY <1>10 DEF LookAtPending, LookAtClaimed, LookAt
  <2> QED
    BY <1>10, <2>1, CleanupGoesOn DEF UseTypes
<1>11. ASSUME NEW pc \in RemovalPcs, Remove(pc)
       PROVE  UseTypes'
  <2>1. /\ session' \in [state : {"unbound", "bound", "closed"},
                         generation : 0 .. MaxGeneration, agent : Agents \union {Nobody}]
        /\ tenure' \in Nat
    BY <1>11, AdministrationAssumption DEF Remove, UseTypes, Unbound
  <2>2. spool' \in Spooled
    BY <1>11, <1>b DEF Remove, UseTypes, Spooled, RemovalPcs
  <2> QED
    BY <1>11, <2>1, <2>2, CleanupGoesOn DEF UseTypes
<1>12. CASE KillCleanup
  BY <1>12 DEF KillCleanup, CleanupGoes, UseTypes, CleanupPcs
<1>13. CASE UNCHANGED useVars
  BY <1>13 DEF useVars, UseTypes
<1> QED
  BY <1>1, <1>2, <1>3, <1>4, <1>5, <1>6, <1>7, <1>8, <1>9, <1>10, <1>11, <1>12, <1>13
  DEF UseNext

\* The batches.
LEMMA NextBatches == UseTypes /\ BatchesInv /\ CleaningInv /\ [Next]_vars => BatchesInv'
<1> SUFFICES ASSUME UseTypes, BatchesInv, CleaningInv, UseNext \/ UNCHANGED useVars
             PROVE  BatchesInv'
  BY NextSplits
<1>t. published \in Nat /\ MaxBatches \in Nat
  BY AdministrationAssumption DEF UseTypes
<1>1. CASE StartWatcher \/ StopWatcher
  BY <1>1 DEF StartWatcher, StopWatcher, BatchesInv
<1>2. CASE BeginReview
  BY <1>2 DEF BeginReview, BatchesInv, Current, UseTypes
<1>3. CASE Publish
  <2>1. /\ watcher'.review = NoBatch /\ published' = published + 1 /\ hook' = hook
        /\ spool'.claimed = spool.claimed
        /\ spool'.pending \subseteq spool.pending \union {watcher.review}
    BY <1>3, SpoolSteps DEF Publish, UseTypes
  <2>2. watcher.review # NoBatch /\ watcher.review.id = published
    BY <1>3 DEF Publish, BatchesInv
  <2>3. \A b \in spool.pending \union spool.claimed : b.id \in Int
    BY DEF UseTypes, Spooled, BatchIds, NoBatch
  <2>4. watcher.review \notin spool.claimed
    BY <1>t, <2>2, <2>3 DEF BatchesInv
  <2> QED
    BY <1>t, <2>1, <2>2, <2>3, <2>4 DEF BatchesInv
<1>4. CASE (\E a \in Agents : Bind(a)) \/ Release
  BY <1>4 DEF Bind, Release, BatchesInv
<1>5. ASSUME NEW b \in spool.pending, Claim(b)
      PROVE  BatchesInv'
  BY <1>5, SpoolSteps DEF Claim, BatchesInv
<1>6. CASE Requeue \/ Acknowledge \/ KillHook
  <2>1. /\ hook' = NoBatch /\ UNCHANGED <<watcher, published>>
        /\ hook # NoBatch /\ hook \in spool.claimed
    BY <1>6 DEF Requeue, Acknowledge, KillHook, BatchesInv
  <2>2. CASE Requeue
    BY <2>1, <2>2, SpoolSteps DEF BatchesInv
  <2>3. CASE Acknowledge
    BY <2>1, <2>3, SpoolSteps DEF BatchesInv
  <2>4. CASE KillHook
    BY <2>1, <2>4 DEF KillHook, BatchesInv
  <2> QED
    BY <1>6, <2>2, <2>3, <2>4
<1>7. ASSUME NEW b \in spool.claimed, Recover(b)
      PROVE  BatchesInv'
  BY <1>7, SpoolSteps DEF Recover, BatchesInv
<1>8. CASE \E discard \in BOOLEAN : StartCleanup(discard)
  BY <1>8 DEF StartCleanup, Cleaning, BatchesInv
<1>9. CASE LookAtPending \/ LookAtClaimed
  BY <1>9 DEF LookAtPending, LookAtClaimed, LookAt, Cleaning, BatchesInv
<1>10. ASSUME NEW pc \in RemovalPcs, Remove(pc)
       PROVE  BatchesInv'
  <2>1. /\ hook = NoBatch
        /\ UNCHANGED <<watcher, hook, published>>
    BY <1>10 DEF Remove, Cleaning, CleaningInv
  <2>2. spool'.pending \in {spool.pending, {}} /\ spool'.claimed \in {spool.claimed, {}}
    BY <1>10 DEF Remove, UseTypes, Spooled, RemovalPcs
  <2> QED
    BY <2>1, <2>2 DEF BatchesInv
<1>11. CASE KillCleanup
  BY <1>11 DEF KillCleanup, BatchesInv
<1>12. CASE UNCHANGED useVars
  BY <1>12 DEF useVars, BatchesInv
<1> QED
  BY <1>1, <1>2, <1>3, <1>4, <1>5, <1>6, <1>7, <1>8, <1>9, <1>10, <1>11, <1>12
  DEF UseNext

\* What a cleanup has seen or done.
LEMMA NextCleaning == UseTypes /\ BatchesInv /\ CleaningInv /\ [Next]_vars => CleaningInv'
<1> SUFFICES ASSUME UseTypes, BatchesInv, CleaningInv, UseNext \/ UNCHANGED useVars
             PROVE  CleaningInv'
  BY NextSplits
<1>1. CASE StartWatcher \/ BeginReview \/ Publish
  BY <1>1 DEF StartWatcher, BeginReview, Publish, Unlocked, CleaningInv, RemovalPcs
<1>2. CASE StopWatcher
  BY <1>2 DEF StopWatcher, CleaningInv
<1>3. CASE (\E a \in Agents : Bind(a)) \/ Release
  BY <1>3 DEF Bind, Release, CleaningInv
<1>4. ASSUME NEW b \in spool.pending, Claim(b)
      PROVE  CleaningInv'
  BY <1>4 DEF Claim, Unlocked, CleaningInv, RemovalPcs
<1>5. CASE Requeue \/ Acknowledge \/ KillHook
  <2>1. /\ hook # NoBatch /\ hook' = NoBatch /\ UNCHANGED <<watcher, cleanup>>
    BY <1>5 DEF Requeue, Acknowledge, KillHook
  <2> QED
    BY <2>1 DEF CleaningInv, RemovalPcs
<1>6. ASSUME NEW b \in spool.claimed, Recover(b)
      PROVE  CleaningInv'
  BY <1>6 DEF Recover, Unlocked, CleaningInv, RemovalPcs
<1>7. ASSUME NEW discard \in BOOLEAN, StartCleanup(discard)
      PROVE  CleaningInv'
  BY <1>7 DEF StartCleanup, Cleaning, CleaningInv, RemovalPcs
<1>8. CASE LookAtPending
  <2>1. /\ UNCHANGED <<watcher, hook, spool, cleanup.discard, cleanup.quiet>>
        /\ cleanup.pc = "look"
        /\ cleanup'.pc \in {"idle", "look again"}
        /\ cleanup'.pc = "look again" => spool.pending = {} \/ cleanup.discard
    BY <1>8, CleanupGoesOn
    DEF LookAtPending, LookAt, Cleaning, CleanupGoes, NoFeedback, UseTypes
  <2> QED
    BY <2>1 DEF CleaningInv, RemovalPcs
<1>9. CASE LookAtClaimed
  <2>1. /\ UNCHANGED <<watcher, hook, spool, cleanup.discard, cleanup.quiet>>
        /\ cleanup.pc = "look again"
        /\ cleanup'.pc \in {"idle", "pending"}
        /\ cleanup'.pc = "pending" => spool.claimed = {} \/ cleanup.discard
    BY <1>9, CleanupGoesOn, RemovalOrder
    DEF LookAtClaimed, LookAt, Cleaning, CleanupGoes, NoFeedback, UseTypes
  <2>2. cleanup'.pc = "pending" => hook = NoBatch
    BY <2>1 DEF CleaningInv, BatchesInv
  <2> QED
    BY <2>1, <2>2 DEF CleaningInv, RemovalPcs
<1>10. ASSUME NEW pc \in RemovalPcs, Remove(pc)
       PROVE  CleaningInv'
  <2>1. /\ UNCHANGED <<watcher, hook, cleanup.discard, cleanup.quiet>>
        /\ cleanup.pc = pc /\ cleanup'.pc = After(pc)
    BY <1>10, CleanupGoesOn DEF Remove, Cleaning, CleanupGoes, UseTypes
  <2>2. /\ spool'.pending = IF pc = "pending" THEN {} ELSE spool.pending
        /\ spool'.claimed = IF pc = "claimed" THEN {} ELSE spool.claimed
        /\ spool'.records = IF pc = "records" THEN {} ELSE spool.records
        /\ spool'.rounds = IF pc = "rounds" THEN NoBatch ELSE spool.rounds
    BY <1>10 DEF Remove, UseTypes, Spooled, RemovalPcs
  <2> QED
    BY <2>1, <2>2, RemovalOrder DEF CleaningInv, RemovalPcs
<1>11. CASE KillCleanup
  BY <1>11 DEF KillCleanup, CleanupGoes, CleaningInv, UseTypes, RemovalPcs
<1>12. CASE UNCHANGED useVars
  BY <1>12 DEF useVars, CleaningInv
<1> QED
  BY <1>1, <1>2, <1>3, <1>4, <1>5, <1>6, <1>7, <1>8, <1>9, <1>10, <1>11, <1>12
  DEF UseNext

\* Generations and tenures go together.
LEMMA NextLives ==
  UseTypes /\ BatchesInv /\ LivesInv /\ CleaningInv /\ [Next]_vars => LivesInv'
<1> SUFFICES ASSUME UseTypes, BatchesInv, LivesInv, CleaningInv,
                    UseNext \/ UNCHANGED useVars
             PROVE  LivesInv'
  BY NextSplits
<1>n. \A b \in BatchIds : b.tenure \in Int /\ b.generation \in Int
  BY DEF BatchIds, NoBatch
<1>t. /\ Stored \union {watcher.review} \subseteq BatchIds
      /\ tenure \in Int /\ session.generation \in Int
  BY DEF UseTypes, Spooled, Stored
<1>s. ASSUME UNCHANGED <<session.generation, tenure>>,
             Stored' \union {watcher'.review}
               \subseteq Stored \union {watcher.review, NoBatch, hook}
      PROVE  LivesInv'
  BY <1>s DEF LivesInv, BatchesInv, Stored
<1>1. CASE StartWatcher \/ StopWatcher
  BY <1>1, <1>s DEF StartWatcher, StopWatcher, Stored
<1>2. CASE BeginReview
  <2>1. watcher'.review = Current /\ UNCHANGED <<session, tenure, Stored>>
    BY <1>2 DEF BeginReview, Stored, UseTypes
  <2>2. Current.tenure = tenure /\ Current.generation = session.generation
    BY DEF Current
  <2> QED
    BY <2>1, <2>2 DEF LivesInv
<1>3. CASE Publish
  <2>1. Stored' \union {watcher'.review} \subseteq Stored \union {watcher.review, NoBatch}
    BY <1>3, SpoolSteps DEF Publish, Stored
  <2> QED
    BY <1>3, <2>1, <1>s DEF Publish
<1>4. CASE \E a \in Agents : Bind(a)
  BY <1>4, <1>s DEF Bind, Stored, UseTypes
<1>5. CASE Release
  <2>1. /\ session'.generation = session.generation + 1 /\ tenure' = tenure + 1
        /\ UNCHANGED <<watcher, Stored>>
    BY <1>5 DEF Release, Stored
  <2> QED
    BY <2>1, <1>t, <1>n DEF LivesInv
<1>6. CASE \/ \E b \in spool.pending : Claim(b)
           \/ \E b \in spool.claimed : Recover(b)
  <2>1. Stored' \subseteq Stored /\ UNCHANGED <<session, tenure, watcher>>
    <3>1. CASE \E b \in spool.pending : Claim(b)
      <4>1. PICK b \in spool.pending : Claim(b)
        BY <3>1
      <4>2. /\ spool'.pending = spool.pending \ {b}
            /\ spool'.claimed = spool.claimed \union {b}
            /\ UNCHANGED <<spool.records, spool.rounds, session, tenure, watcher>>
        BY <4>1, SpoolSteps DEF Claim
      <4> QED
        BY <4>2 DEF Stored
    <3>2. CASE \E b \in spool.claimed : Recover(b)
      BY <3>2, SpoolSteps DEF Recover, Stored
    <3> QED
      BY <1>6, <3>1, <3>2
  <2> QED
    BY <2>1, <1>s
<1>7. CASE Requeue \/ Acknowledge \/ KillHook
  <2>1. Stored' \subseteq Stored \union {hook} /\ UNCHANGED <<session, tenure, watcher>>
    BY <1>7, SpoolSteps DEF Requeue, Acknowledge, KillHook, Stored
  <2> QED
    BY <2>1, <1>s
<1>8. CASE \/ \E discard \in BOOLEAN : StartCleanup(discard)
           \/ LookAtPending
           \/ LookAtClaimed
           \/ KillCleanup
  BY <1>8, <1>s DEF StartCleanup, LookAtPending, LookAtClaimed, LookAt, KillCleanup,
     Cleaning, Stored
<1>9. ASSUME NEW pc \in RemovalPcs, Remove(pc)
      PROVE  LivesInv'
  <2>1. CASE pc # "session"
    <3>1. Stored' \subseteq Stored \union {NoBatch} /\ UNCHANGED <<session, tenure, watcher>>
      BY <1>9, <2>1 DEF Remove, Cleaning, Stored, UseTypes, Spooled, RemovalPcs
    <3> QED
      BY <3>1, <1>s
  <2>2. CASE pc = "session"
    <3>1. cleanup.pc = "session" /\ UNCHANGED <<watcher, spool>>
      BY <1>9, <2>2 DEF Remove, Cleaning
    <3>2. Stored' = {NoBatch} /\ watcher'.review = NoBatch
      BY <3>1 DEF CleaningInv, BatchesInv, Stored
    <3> QED
      BY <3>2 DEF LivesInv
  <2> QED
    BY <2>1, <2>2
<1>10. CASE UNCHANGED useVars
  BY <1>10 DEF useVars, LivesInv, Stored
<1> QED
  BY <1>1, <1>2, <1>3, <1>4, <1>5, <1>6, <1>7, <1>8, <1>9, <1>10 DEF UseNext

\* All of it together.
LEMMA NextUse == UseInv /\ [Next]_vars => UseInv'
  BY NextTenure, NextUseTypes, NextBatches, NextCleaning, NextLives DEF UseInv

-------------------------------------------------------------------------------
\* Every variable has its type in every reachable state.
THEOREM TypeCorrect == Spec => []TypeOK
<1>1. SetupInv /\ UseInv => TypeOK
  BY DEF SetupInv, UseInv, UseTypes, Spooled, BatchesInv, TypeOK
<1> QED
  BY <1>1, InitSetup, InitUse, NextSetup, NextUse, PTL DEF Spec

\* Whatever the spool holds for the present generation is of the present session, for
\* any number of sessions and of cleanups that are killed anywhere: a cleanup removes
\* the session, which starts the generations over, only when nothing else is left, and
\* until then the sessions that ended and the generations grow together.
THEOREM SessionCorrect == Spec => []NothingOutlivesItsSession
<1>1. UseInv => NothingOutlivesItsSession
  <2> SUFFICES ASSUME UseInv, NEW b \in Stored, b.generation = session.generation
               PROVE  b.tenure = tenure
    BY DEF NothingOutlivesItsSession, Stored
  <2>1. b # NoBatch
    BY DEF UseInv, UseTypes, NoBatch
  <2>2. b.tenure - b.generation = tenure - session.generation
    BY <2>1 DEF UseInv, LivesInv
  <2>3. b.tenure \in Int /\ b.generation \in Int /\ tenure \in Int
    BY DEF UseInv, UseTypes, Spooled, BatchIds, NoBatch, Stored
  <2> QED
    BY <2>2, <2>3
<1> QED
  BY <1>1, InitUse, NextUse, PTL DEF Spec

\* A cleanup that found no hook with a claim when it began, and was not told to discard
\* feedback, removes none, whatever else happens meanwhile and wherever it is killed.
THEOREM CleanupCorrect == Spec => QuietCleanupKeepsFeedback
<1>1. UseInv /\ [Next]_vars =>
        [Undelivered \subseteq Undelivered'
           \/ hook # NoBatch
           \/ cleanup.discard \/ ~ cleanup.quiet]_vars
  <2> SUFFICES ASSUME UseInv, UseNext \/ UNCHANGED useVars,
                      hook = NoBatch, ~ cleanup.discard, cleanup.quiet
               PROVE  Undelivered \subseteq Undelivered'
    BY NextSplits
  <2>t. UseTypes /\ CleaningInv
    BY DEF UseInv
  <2>1. CASE UNCHANGED spool
    BY <2>1 DEF Undelivered
  <2>2. CASE Publish \/ \E b \in spool.pending : Claim(b)
    BY <2>t, <2>2, SpoolSteps DEF Undelivered
  <2>3. ASSUME NEW b \in spool.claimed, Recover(b)
        PROVE  Undelivered \subseteq Undelivered'
    BY <2>t, <2>3, SpoolSteps DEF Undelivered
  <2>4. ASSUME NEW pc \in RemovalPcs, Remove(pc)
        PROVE  Undelivered \subseteq Undelivered'
    <3>1. spool.pending = {} /\ spool.claimed = {}
      BY <2>t, <2>4 DEF Remove, Cleaning, CleaningInv
    <3> QED
      BY <3>1 DEF Undelivered
  <2>5. ~ Requeue /\ ~ Acknowledge /\ ~ KillHook
    BY DEF Requeue, Acknowledge, KillHook
  <2> QED
    BY <2>1, <2>2, <2>3, <2>4, <2>5
    DEF UseNext, StartWatcher, StopWatcher, BeginReview, Bind, Release, StartCleanup,
        LookAtPending, LookAtClaimed, LookAt, KillCleanup, useVars
<1> QED
  BY <1>1, InitUse, NextUse, PTL DEF Spec, QuietCleanupKeepsFeedback

================================================================================
