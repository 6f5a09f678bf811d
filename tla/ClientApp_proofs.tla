-------------------------- MODULE ClientApp_proofs --------------------------
(***************************************************************************)
(* Proofs about ClientApp, and so about StartupGuide and ChatUI.           *)
(*                                                                         *)
(* AppInv is inductive.  Its part about the guide, GuideInv, says at every *)
(* step that there is a way on, and, while no two tasks have overlapped,   *)
(* which page a task belongs to.  Its part about the page, AppViewInv,     *)
(* says that the indices in the view are in range, and, while no two tasks *)
(* have overlapped, that the page is Current: what a view shows agrees     *)
(* with the library.  Rendering, the events of the library and the clicks  *)
(* are functions of the view; a lemma for each tells what it keeps.        *)
(***************************************************************************)
EXTENDS ClientApp, SequenceTheorems, WellFoundedInduction, FiniteSetTheorems, TLAPS

-----------------------------------------------------------------------------
(* The bag of tasks.                                                       *)

Job(kind, k) == [kind |-> kind, key |-> k]
TaskBag(b) == IsABag(b) /\ BagToSet(b) \subseteq Task

\* Adding a task.
LEMMA BagPlus ==
  ASSUME NEW b, TaskBag(b), NEW t \in Task
  PROVE  LET c == b (+) SetToBag({t}) IN
         /\ TaskBag(c)
         /\ BagToSet(c) = BagToSet(b) \cup {t}
         /\ OneByOne(c) =>
              /\ OneByOne(b) /\ t \notin BagToSet(b)
              /\ \A u \in BagToSet(b) : (t.kind \in Aside \/ u.kind \in Aside)
         /\ OneByOne(b) /\ (\A u \in BagToSet(b) : t # u /\ (t.kind \in Aside \/ u.kind \in Aside))
              => OneByOne(c)
  <1> DEFINE c == b (+) SetToBag({t})
  <1>1. b = [u \in DOMAIN b |-> b[u]] /\ \A u \in DOMAIN b : b[u] \in Nat /\ b[u] > 0
    BY DEF TaskBag, IsABag
  <1>2. /\ DOMAIN c = DOMAIN b \cup {t}
        /\ c = [u \in DOMAIN c |-> c[u]]
        /\ \A u \in DOMAIN b \ {t} : c[u] = b[u]
        /\ c[t] = IF t \in DOMAIN b THEN b[t] + 1 ELSE 1
    BY <1>1 DEF (+), SetToBag
  <1> HIDE DEF c
  <1>3. c \in [DOMAIN c -> {n \in Nat : n > 0}]
    BY <1>1, <1>2
  <1>4. TaskBag(c) /\ BagToSet(c) = BagToSet(b) \cup {t}
    BY <1>2, <1>3 DEF TaskBag, IsABag, BagToSet
  <1>5. ASSUME OneByOne(c)
        PROVE  /\ OneByOne(b) /\ t \notin BagToSet(b)
               /\ \A u \in BagToSet(b) : (t.kind \in Aside \/ u.kind \in Aside)
    <2>1. t \notin DOMAIN b
      BY <1>1, <1>2, <1>5 DEF OneByOne, BagToSet, BagIn
    <2> QED BY <2>1, <1>1, <1>2, <1>5 DEF OneByOne, BagToSet, BagIn
  <1>6. ASSUME OneByOne(b), \A u \in BagToSet(b) : t # u /\ (t.kind \in Aside \/ u.kind \in Aside)
        PROVE  OneByOne(c)
    BY <1>1, <1>2, <1>6 DEF OneByOne, BagToSet, BagIn
  <1> QED BY <1>4, <1>5, <1>6 DEF c

\* Taking a task away.
LEMMA BagMinus ==
  ASSUME NEW b, TaskBag(b), NEW t \in BagToSet(b)
  PROVE  LET c == b (-) SetToBag({t}) IN
         /\ TaskBag(c)
         /\ BagToSet(c) \subseteq BagToSet(b) /\ BagToSet(b) \ {t} \subseteq BagToSet(c)
         /\ OneByOne(b) => OneByOne(c) /\ BagToSet(c) = BagToSet(b) \ {t}
  <1> DEFINE c == b (-) SetToBag({t})
  <1>1. b = [u \in DOMAIN b |-> b[u]] /\ \A u \in DOMAIN b : b[u] \in Nat /\ b[u] > 0
    BY DEF TaskBag, IsABag
  <1>2. /\ DOMAIN c = IF b[t] = 1 THEN DOMAIN b \ {t} ELSE DOMAIN b
        /\ c = [u \in DOMAIN c |-> c[u]]
        /\ \A u \in DOMAIN c \ {t} : c[u] = b[u]
        /\ t \in DOMAIN c => c[t] = b[t] - 1 /\ b[t] - 1 > 0
    BY <1>1 DEF (-), SetToBag, BagToSet
  <1> HIDE DEF c
  <1>3. c \in [DOMAIN c -> {n \in Nat : n > 0}]
    BY <1>1, <1>2
  <1>4. TaskBag(c)
    BY <1>2, <1>3 DEF TaskBag, IsABag, BagToSet
  <1>5. BagToSet(c) \subseteq BagToSet(b) /\ BagToSet(b) \ {t} \subseteq BagToSet(c)
    BY <1>2 DEF BagToSet
  <1>6. ASSUME OneByOne(b)
        PROVE  OneByOne(c) /\ BagToSet(c) = BagToSet(b) \ {t}
    <2>1. b[t] = 1
      BY <1>6 DEF OneByOne, BagToSet, BagIn
    <2> QED BY <2>1, <1>2, <1>6 DEF OneByOne, BagToSet, BagIn
  <1> QED BY <1>4, <1>5, <1>6 DEF c

LEMMA BagSame ==
  ASSUME NEW b, TaskBag(b)
  PROVE  b (+) EmptyBag = b
  <1>1. b = [u \in DOMAIN b |-> b[u]] /\ \A u \in DOMAIN b : b[u] \in Nat
    BY DEF TaskBag, IsABag
  <1>2. (DOMAIN b) \cup DOMAIN EmptyBag = DOMAIN b /\ DOMAIN EmptyBag = {}
    BY DEF EmptyBag, SetToBag
  <1>3. \A u \in DOMAIN b : b[u] + 0 = b[u]
    BY <1>1
  <1> QED BY <1>1, <1>2, <1>3 DEF (+)

LEMMA BagEmpty == TaskBag(EmptyBag) /\ BagToSet(EmptyBag) = {} /\ OneByOne(EmptyBag)
  <1>1. DOMAIN EmptyBag = {} /\ EmptyBag = [u \in {} |-> EmptyBag[u]]
    BY DEF EmptyBag, SetToBag
  <1> QED BY <1>1 DEF TaskBag, IsABag, BagToSet, OneByOne

-----------------------------------------------------------------------------
(* The guide.                                                              *)

\* There is a way on: a button that works, a task that will enable one, or the last
\* page has failed.
WayOn ==
    /\ onNext # "null" => backEnable
    /\ \/ finished \/ nextEnable \/ backEnable
       \/ activePage = SignUp /\ \E t \in BagToSet(tasks) : t.kind \in {"sleep", "register"}
       \/ /\ activePage = Final
          /\ \/ failed \/ confirm = "error"
             \/ \E t \in BagToSet(tasks) : t.kind \in {"ask", "connect"}

\* The guide ends on its last page, and only then does the page connect.
Ending ==
    /\ finished => activePage = Final
    /\ \A t \in BagToSet(tasks) : t.kind = "open" => finished

\* A task belongs to a page: a key may be generated on after a click on BACK.
TasksFit ==
    \A t \in BagToSet(tasks) :
      /\ t.kind \in {"generate", "armor"} => activePage \in {First, KeyGen}
      /\ t.kind \in {"sleep", "register"} => activePage = SignUp /\ ~backEnable
      /\ t.kind = "register" => t.key = user
      /\ t.kind = "draw" => activePage = Final /\ ~joining
      /\ t.kind \in {"connect", "ask"} => joining /\ activePage = Final /\ ~finished
      /\ t.kind \in {"connect", "open"} => state = "connecting" /\ signedIn = 0
      /\ t.kind = "ask" => signedIn # 0
      /\ t.kind = "reconnect" => state = "connecting" /\ signedIn # 0
      /\ t.kind \in Aside => t.key = 0

ButtonsFit ==
    /\ onNext = "null" <=> activePage # KeyGen
    /\ activePage = SignUp => ~nextEnable
    /\ activePage = Final /\ joining /\ ~finished => ~nextEnable /\ ~backEnable

\* From here the guide does not go back.
Settled == finished \/ (activePage = Final /\ joining)

KeyFits ==
    /\ state \in {"connecting", "ready"} => Settled
    /\ signedIn # 0 => signedIn = user /\ state \in {"connecting", "ready"}
    /\ state = "ready" => signedIn # 0
    /\ activePage = Final => user \in registered /\ (joining \/ inviteLink = user)

GuideCalm == OneByOne(tasks) /\ TasksFit /\ ButtonsFit /\ KeyFits
GuideInv == GuideTypeOK /\ WayOn /\ Ending /\ (~overlap => GuideCalm)
States == {"none", "registed", "connecting", "ready"}

\* What GuideTypeOK says of the client, but for its state.
TmcsTyped ==
    /\ user \in 0..MaxKeys
    /\ private \cup registered \subseteq Keys /\ lapsed \subseteq registered
    /\ inviteLink \in 0..MaxKeys
    /\ signedIn \in 0..MaxKeys /\ sockets \in Nat
    /\ signedIn = 0 => sockets = 0

\* Before the client connects for the first time nothing goes on beside the guide.
LEMMA Unsettled ==
  ASSUME GuideTypeOK, Ending, GuideCalm, ~Settled
  PROVE  /\ signedIn = 0 /\ state \in {"none", "registed"}
         /\ \A t \in BagToSet(tasks) : t.kind \notin Aside
  <1>1. signedIn = 0 /\ state \in {"none", "registed"}
    BY DEF GuideTypeOK, GuideCalm, KeyFits
  <1>2. \A t \in BagToSet(tasks) : t.kind \notin {"open", "reconnect"}
    BY <1>1 DEF Ending, GuideCalm, TasksFit, Settled
  <1> QED BY <1>1, <1>2 DEF Aside

\* The tasks that a page starts.
StartedSet(n, st) ==
    IF n = SignUp THEN {Job("sleep", 0)}
    ELSE IF n # Final THEN {}
    ELSE IF ~joining THEN {Job("draw", 0)}
    ELSE IF st = "connecting" THEN {}
    ELSE IF st = "ready" THEN {Job("ask", 0)}
    ELSE {Job("connect", 0)}

LEMMA Jobs ==
  /\ \A k \in 0..MaxKeys :
       \A kind \in Kinds : Job(kind, k) \in Task
  /\ Kinds = {"generate", "armor", "sleep", "register", "draw", "connect", "ask", "open",
              "reconnect"}
  /\ \A kind, k : Job(kind, k).kind = kind /\ Job(kind, k).key = k
  /\ Keys \subseteq 0..MaxKeys /\ 0 \in 0..MaxKeys
  /\ \A kind, k : Waiting(kind, k) = SetToBag({Job(kind, k)})
  /\ \A t \in Task : t = Job(t.kind, t.key) /\ t.key \in 0..MaxKeys
  BY GuideBoundsAssumption DEF Job, Task, Keys, Waiting, Kinds, Aside

\* A page turns: what is awaited then.
LEMMA Turned ==
  ASSUME joining \in BOOLEAN, NEW rest, TaskBag(rest), NEW st \in States,
         NEW n \in First..Final, Turn(n, rest, st)
  PROVE  /\ TaskBag(tasks')
         /\ BagToSet(tasks') = BagToSet(rest) \cup StartedSet(n, st)
         /\ OneByOne(tasks') =>
              OneByOne(rest)
              /\ (StartedSet(n, st) # {} => \A u \in BagToSet(rest) : u.kind \in Aside)
         /\ StartedSet(n, st) \subseteq Task
  <1>1. tasks' = rest (+) Started(n, st)
    BY DEF Turn
  <1>2. CASE StartedSet(n, st) = {}
    <2>1. Started(n, st) = EmptyBag
      BY <1>2 DEF Started, StartedSet, First, Final, SignUp
    <2> QED BY <1>1, <1>2, <2>1, BagSame
  <1>3. CASE StartedSet(n, st) # {}
    <2>1. PICK t : t \in Task /\ t.kind \notin Aside /\ StartedSet(n, st) = {t}
                   /\ Started(n, st) = SetToBag({t})
      <3>1. CASE n = SignUp
        <4>1. Started(n, st) = Waiting("sleep", 0) /\ StartedSet(n, st) = {Job("sleep", 0)}
          BY <3>1 DEF Started, StartedSet, Final, SignUp
        <4> QED BY <4>1, Jobs DEF Aside
      <3>2. CASE n # SignUp /\ n = Final /\ ~joining
        <4>1. Started(n, st) = Waiting("draw", 0) /\ StartedSet(n, st) = {Job("draw", 0)}
          BY <3>2 DEF Started, StartedSet
        <4> QED BY <4>1, Jobs DEF Aside
      <3>3. CASE n # SignUp /\ n = Final /\ joining /\ st = "ready"
        <4>1. Started(n, st) = Waiting("ask", 0) /\ StartedSet(n, st) = {Job("ask", 0)}
          BY <3>3 DEF Started, StartedSet
        <4> QED BY <4>1, Jobs DEF Aside
      <3>4. CASE n # SignUp /\ n = Final /\ joining /\ st \notin {"ready", "connecting"}
        <4>1. Started(n, st) = Waiting("connect", 0) /\ StartedSet(n, st) = {Job("connect", 0)}
          BY <3>4 DEF Started, StartedSet
        <4> QED BY <4>1, Jobs DEF Aside
      <3> QED BY <1>3, <3>1, <3>2, <3>3, <3>4 DEF StartedSet
    <2> QED BY <1>1, <2>1, BagPlus
  <1> QED BY <1>2, <1>3
\* What holds of the guide also when tasks have overlapped.
GuideSafe == GuideTypeOK /\ WayOn /\ Ending

\* A page turns.
LEMMA TurnSafe ==
  ASSUME GuideTypeOK, joining' = joining, confirm' \in {"pending", "error"},
         TmcsTyped',
         NEW rest, TaskBag(rest), NEW st \in States, NEW n \in First..Final,
         Turn(n, rest, st), ~finished,
         \A t \in BagToSet(rest) : t.kind # "open"
  PROVE  GuideSafe'
  <1>1. /\ TaskBag(tasks')
        /\ BagToSet(tasks') = BagToSet(rest) \cup StartedSet(n, st)
        /\ OneByOne(tasks') =>
             OneByOne(rest)
             /\ (StartedSet(n, st) # {} => \A u \in BagToSet(rest) : u.kind \in Aside)
    BY Turned DEF GuideTypeOK
  <1>2. /\ activePage' = n /\ finished' = FALSE /\ made' = made
        /\ onNext' = IF n = KeyGen THEN "generate" ELSE "null"
        /\ nextEnable' = ~Busy(n) /\ backEnable' = (n # First /\ ~Busy(n))
        /\ state' = IF n = Final /\ joining /\ st # "ready" THEN "connecting" ELSE st
        /\ failed' = (failed \/ (n = Final /\ joining /\ st = "connecting"))
    BY DEF Turn, GuideTypeOK
  <1>4. GuideTypeOK'
    <2>1. nextEnable' \in BOOLEAN /\ backEnable' \in BOOLEAN /\ failed' \in BOOLEAN
      BY <1>2 DEF Busy, GuideTypeOK
    <2>2. state' \in {"none", "registed", "connecting", "ready"}
      BY <1>2 DEF States
    <2>3. /\ onNext' \in {"null", "generate", "false"}
          /\ IsABag(tasks') /\ BagToSet(tasks') \subseteq Task
      BY <1>1, <1>2 DEF TaskBag
    <2> QED BY <1>2, <2>1, <2>2, <2>3 DEF GuideTypeOK, TmcsTyped
  <1>5. \A t \in StartedSet(n, st) :
          /\ n = SignUp => t.kind = "sleep"
          /\ n # SignUp => n = Final
          /\ n = Final => t.kind = IF ~joining THEN "draw"
                                   ELSE IF st = "ready" THEN "ask" ELSE "connect"
    BY Jobs DEF StartedSet, SignUp, Final
  <1>6. WayOn'
    <2>0. onNext' # "null" => backEnable'
      <3>1. n = KeyGen => n # First /\ ~Busy(n)
        BY DEF Busy, First, KeyGen, SignUp, Final
      <3> QED BY <3>1, <1>2
    <2>1. CASE n = SignUp
      <3>1. Job("sleep", 0) \in BagToSet(tasks')
        BY <1>1, <2>1 DEF StartedSet
      <3> QED BY <2>0, <3>1, <2>1, <1>2, Jobs DEF WayOn
    <2>2. CASE n = Final /\ joining /\ st = "ready"
      <3>1. Job("ask", 0) \in BagToSet(tasks')
        BY <1>1, <2>2 DEF StartedSet, SignUp, Final
      <3> QED BY <2>0, <3>1, <2>2, <1>2, Jobs DEF WayOn
    <2>3. CASE n = Final /\ joining /\ st \notin {"ready", "connecting"}
      <3>1. Job("connect", 0) \in BagToSet(tasks')
        BY <1>1, <2>3 DEF StartedSet, SignUp, Final
      <3> QED BY <2>0, <3>1, <2>3, <1>2, Jobs DEF WayOn
    <2>4. CASE n = Final /\ joining /\ st = "connecting"
      BY <2>0, <2>4, <1>2 DEF WayOn
    <2>5. CASE n # SignUp /\ ~(n = Final /\ joining)
      BY <2>0, <2>5, <1>2 DEF WayOn, Busy
    <2> QED BY <2>1, <2>2, <2>3, <2>4, <2>5
  <1>7. Ending'
    BY <1>1, <1>2, <1>5, <1>6 DEF Ending
  <1> QED BY <1>4, <1>6, <1>7 DEF GuideSafe

\* A page turns: what that keeps without an overlap, if what is awaited besides does
\* not belong to the page that was there before.
LEMMA TurnCalm ==
  ASSUME GuideTypeOK, joining' = joining,
         NEW rest, TaskBag(rest), NEW st \in {"none", "registed"}, NEW n \in First..Final,
         Turn(n, rest, st), ~finished, OneByOne(tasks'),
         \A t \in BagToSet(rest) :
           \/ t.kind \in {"generate", "armor"} /\ n \in {First, KeyGen}
           \/ t.kind = "draw" /\ n = SignUp,
         n = Final => user' \in registered' /\ (joining \/ inviteLink' = user'), signedIn' = 0
  PROVE  GuideCalm'
  <1>1. /\ TaskBag(tasks')
        /\ BagToSet(tasks') = BagToSet(rest) \cup StartedSet(n, st)
        /\ OneByOne(tasks') =>
             OneByOne(rest)
             /\ (StartedSet(n, st) # {} => \A u \in BagToSet(rest) : u.kind \in Aside)
    BY Turned DEF GuideTypeOK, States
  <1>2. /\ activePage' = n /\ finished' = FALSE
        /\ onNext' = IF n = KeyGen THEN "generate" ELSE "null"
        /\ nextEnable' = ~Busy(n) /\ backEnable' = (n # First /\ ~Busy(n))
        /\ state' = IF n = Final /\ joining THEN "connecting" ELSE st
    BY DEF Turn, GuideTypeOK
  <1>3. \A t \in StartedSet(n, st) :
          /\ n = SignUp => t.kind = "sleep"
          /\ n # SignUp => n = Final
          /\ n = Final => t.kind = IF ~joining THEN "draw" ELSE "connect"
          /\ t.kind \notin Aside
    BY Jobs DEF StartedSet, SignUp, Final, Aside
  <1>4. TasksFit'
    <2> SUFFICES ASSUME NEW t \in BagToSet(tasks')
                 PROVE  /\ t.kind \in {"generate", "armor"} => n \in {First, KeyGen}
                        /\ t.kind \in {"sleep", "register"} => n = SignUp /\ ~backEnable'
                        /\ t.kind = "register" => t.key = user'
                        /\ t.kind = "draw" => n = Final /\ ~joining
                        /\ t.kind \in {"connect", "ask"} => joining /\ n = Final
                        /\ t.kind = "connect" => state' = "connecting"
                        /\ t.kind # "ask" /\ t.kind \notin Aside
      BY <1>2 DEF TasksFit, Aside
    <2>1. CASE t \in StartedSet(n, st)
      <3>1. CASE n = SignUp
        BY <3>1, <2>1, <1>2, <1>3 DEF SignUp, Final, Busy
      <3>2. CASE n # SignUp
        BY <3>2, <2>1, <1>2, <1>3 DEF SignUp, Final, Busy
      <3> QED BY <3>1, <3>2
    <2>2. CASE t \notin StartedSet(n, st)
      <3>1. t \in BagToSet(rest)
        BY <2>2, <1>1
      <3>2. n = SignUp => Job("sleep", 0) \in StartedSet(n, st)
        BY DEF StartedSet
      <3>3. t.kind \notin Aside /\ (n = SignUp => t.kind \in Aside)
        BY <3>1, <3>2, <1>1 DEF Aside
      <3> QED BY <3>1, <3>3
    <2> QED BY <2>1, <2>2
  <1>5. ButtonsFit'
    BY <1>2 DEF ButtonsFit, Busy, KeyGen, Final, SignUp
  <1>6. KeyFits'
    BY <1>2 DEF KeyFits, Settled
  <1> QED BY <1>4, <1>5, <1>6 DEF GuideCalm

\* The guide is finished: the page of the conversations takes its place.
LEMMA FinishKeeps ==
  ASSUME GuideSafe, joining' = joining, confirm' \in {"pending", "error"},
         TmcsTyped',
         NEW rest, TaskBag(rest), NEW st \in States,
         NEW buttons \in [next : BOOLEAN, back : BOOLEAN],
         Advance("null", buttons, rest, st), ~finished, activePage = Final
  PROVE  /\ GuideSafe'
         /\ (/\ OneByOne(tasks')
             /\ \A t \in BagToSet(rest) :
                  \/ t.kind = "draw" /\ ~joining
                  \/ t.kind = "reconnect" /\ t.key = 0 /\ st = "connecting" /\ signedIn' # 0
             /\ user' \in registered' /\ (joining \/ inviteLink' = user')
             /\ signedIn' # 0 => signedIn' = user' /\ st \in {"connecting", "ready"}
             /\ st = "ready" => signedIn' # 0) => GuideCalm'
  <1>1. /\ nextEnable' = buttons.next /\ backEnable' = buttons.back
        /\ finished' = TRUE /\ onNext' = "null" /\ made' = made /\ activePage' = activePage
        /\ tasks' = IF Connects(st) THEN rest (+) SetToBag({Job("open", 0)}) ELSE rest
        /\ state' = IF Connects(st) THEN "connecting" ELSE st
        /\ failed' = failed
    <2>1. ~(activePage < Final)
      BY DEF Final
    <2>2. Waiting("open", 0) = SetToBag({Job("open", 0)})
      BY Jobs
    <2> QED BY <2>1, <2>2 DEF Advance
  <1>2. TaskBag(tasks') /\ BagToSet(tasks') \ BagToSet(rest) \subseteq {Job("open", 0)}
        /\ (~Connects(st) => tasks' = rest)
    <2>1. CASE Connects(st)
      BY <2>1, <1>1, BagPlus, Jobs
    <2>2. CASE ~Connects(st)
      BY <2>2, <1>1
    <2> QED BY <2>1, <2>2
  <1>3. GuideTypeOK'
    BY <1>1, <1>2 DEF GuideSafe, GuideTypeOK, States, TaskBag, TmcsTyped
  <1>4. WayOn' /\ Ending'
    BY <1>1 DEF WayOn, Ending
  <1>5. ASSUME OneByOne(tasks'),
               \A t \in BagToSet(rest) :
                 \/ t.kind = "draw" /\ ~joining
                 \/ t.kind = "reconnect" /\ t.key = 0 /\ st = "connecting" /\ signedIn' # 0,
               user' \in registered', joining \/ inviteLink' = user',
               signedIn' # 0 => signedIn' = user' /\ st \in {"connecting", "ready"},
               st = "ready" => signedIn' # 0
        PROVE  GuideCalm'
    <2>1. TasksFit'
      <3> SUFFICES ASSUME NEW t \in BagToSet(tasks')
                   PROVE  \/ t.kind = "draw" /\ ~joining
                          \/ t.kind = "open" /\ t.key = 0 /\ state' = "connecting" /\ signedIn' = 0
                          \/ /\ t.kind = "reconnect" /\ t.key = 0 /\ state' = "connecting"
                             /\ signedIn' # 0
        BY <1>1 DEF TasksFit, Aside
      <3>1. CASE t \in BagToSet(rest)
        BY <3>1, <1>1, <1>5 DEF Connects
      <3>2. CASE t \notin BagToSet(rest)
        <4>1. Connects(st) /\ t = Job("open", 0)
          BY <3>2, <1>2
        <4> QED BY <4>1, <1>1, <1>5, Jobs DEF Connects
      <3> QED BY <3>1, <3>2
    <2>2. ButtonsFit'
      BY <1>1 DEF ButtonsFit, Final, KeyGen, SignUp
    <2>3. KeyFits'
      BY <1>1, <1>5 DEF KeyFits, Settled, Connects
    <2> QED BY <1>5, <2>1, <2>2, <2>3 DEF GuideCalm
  <1> QED BY <1>3, <1>4, <1>5 DEF GuideSafe

\* What a call of Guide.next keeps, whatever has overlapped.
LEMMA AdvanceSafe ==
  ASSUME GuideSafe, joining' = joining, confirm' \in {"pending", "error"},
         TmcsTyped',
         NEW rest, TaskBag(rest), BagToSet(rest) \subseteq BagToSet(tasks), NEW st \in States,
         NEW buttons \in [next : BOOLEAN, back : BOOLEAN],
         NEW handler \in {"null", "generate", "false"},
         handler # "null" => buttons.next /\ buttons.back,
         Advance(handler, buttons, rest, st)
  PROVE  GuideSafe'
  <1>1. CASE finished
    <2>1. /\ UNCHANGED <<activePage, nextEnable, backEnable, onNext, finished, failed, made>>
          /\ tasks' = rest /\ state' = st
      BY <1>1 DEF Advance, guide
    <2>2. GuideTypeOK'
      BY <2>1 DEF GuideSafe, GuideTypeOK, States, TaskBag, TmcsTyped
    <2> QED BY <1>1, <2>1, <2>2 DEF GuideSafe, WayOn, Ending
  <1>2. CASE ~finished /\ handler = "null" /\ activePage < Final
    <2>1. Turn(activePage + 1, rest, st) /\ activePage + 1 \in First..Final
      BY <1>2 DEF Advance, GuideSafe, GuideTypeOK, First, Final
    <2>2. \A t \in BagToSet(rest) : t.kind # "open"
      BY <1>2 DEF GuideSafe, Ending
    <2> QED BY <1>2, <2>1, <2>2, TurnSafe DEF GuideSafe
  <1>3. CASE ~finished /\ handler = "null" /\ ~(activePage < Final)
    <2>1. activePage = Final
      BY <1>3 DEF GuideSafe, GuideTypeOK, First, Final
    <2> QED BY <1>3, <2>1, FinishKeeps
  <1>4. CASE ~finished /\ handler # "null"
    <2>1. /\ nextEnable' = buttons.next /\ backEnable' = buttons.back /\ finished' = FALSE
          /\ onNext' = (IF handler = "generate" THEN "false" ELSE handler)
          /\ handler = "generate" => made < MaxKeys
          /\ made' = (IF handler = "generate" THEN made + 1 ELSE made)
          /\ tasks' = (IF handler = "generate"
                       THEN rest (+) Waiting("generate", made + 1) ELSE rest)
          /\ state' = st /\ activePage' = activePage /\ failed' = failed
      BY <1>4 DEF Advance
    <2>2. made' \in 0..MaxKeys
      BY <2>1, GuideBoundsAssumption DEF GuideSafe, GuideTypeOK
    <2>3. TaskBag(tasks') /\ \A t \in BagToSet(tasks') : t \in BagToSet(rest) \/ t.kind = "generate"
      <3>1. CASE handler = "generate"
        <4>1. Job("generate", made + 1) \in Task
          BY <2>1, <2>2, <3>1, Jobs
        <4>2. PICK t \in Task : t = Job("generate", made + 1)
          BY <4>1
        <4>3. tasks' = rest (+) SetToBag({t}) /\ t.kind = "generate"
          BY <3>1, <2>1, <4>2, Jobs
        <4>4. TaskBag(tasks') /\ BagToSet(tasks') = BagToSet(rest) \cup {t}
          BY <4>3, BagPlus
        <4> QED BY <4>3, <4>4
      <3>2. CASE handler # "generate"
        BY <3>2, <2>1
      <3> QED BY <3>1, <3>2
    <2>4. GuideTypeOK'
      BY <2>1, <2>2, <2>3 DEF GuideSafe, GuideTypeOK, States, TaskBag, TmcsTyped
    <2>5. WayOn'
      BY <1>4, <2>1 DEF WayOn
    <2>6. Ending'
      BY <1>4, <2>1, <2>3 DEF GuideSafe, Ending
    <2> QED BY <2>4, <2>5, <2>6 DEF GuideSafe
  <1> QED BY <1>1, <1>2, <1>3, <1>4
\* A task is over: what is awaited besides.
LEMMA Away ==
  ASSUME GuideTypeOK, NEW kind, NEW k, Awaited(kind, k)
  PROVE  /\ Job(kind, k) \in Task /\ Job(kind, k) \in BagToSet(tasks)
         /\ TaskBag(Without(kind, k))
         /\ BagToSet(Without(kind, k)) \subseteq BagToSet(tasks)
         /\ \A t \in BagToSet(tasks) : t.kind # kind => t \in BagToSet(Without(kind, k))
         /\ OneByOne(tasks) =>
              /\ OneByOne(Without(kind, k))
              /\ kind \notin Aside => \A t \in BagToSet(Without(kind, k)) : t.kind \in Aside
              /\ \A t \in BagToSet(Without(kind, k)) : t # Job(kind, k)
  <1>1. TaskBag(tasks) /\ Job(kind, k) \in BagToSet(tasks)
    BY DEF GuideTypeOK, TaskBag, Awaited, BagIn, Job
  <1>2. PICK u \in BagToSet(tasks) : u = Job(kind, k)
    BY <1>1
  <1>3. Without(kind, k) = tasks (-) SetToBag({u}) /\ u.kind = kind
    BY <1>2, Jobs DEF Without
  <1> DEFINE w == Without(kind, k)
  <1>4. /\ TaskBag(w)
        /\ BagToSet(w) \subseteq BagToSet(tasks) /\ BagToSet(tasks) \ {u} \subseteq BagToSet(w)
        /\ OneByOne(tasks) => OneByOne(w) /\ BagToSet(w) = BagToSet(tasks) \ {u}
    BY <1>1, <1>3, BagMinus
  <1> HIDE DEF w
  <1>5. OneByOne(tasks) /\ kind \notin Aside => \A t \in BagToSet(w) : t.kind \in Aside
    BY <1>3, <1>4 DEF OneByOne
  <1> QED BY <1>1, <1>2, <1>3, <1>4, <1>5 DEF w, TaskBag

\* A task is followed by another.
LEMMA FollowedBy ==
  ASSUME NEW rest, TaskBag(rest), NEW kind, NEW k, Job(kind, k) \in Task,
         tasks' = rest (+) Waiting(kind, k)
  PROVE  /\ TaskBag(tasks') /\ Job(kind, k) \in BagToSet(tasks')
         /\ \A t \in BagToSet(tasks') : t \in BagToSet(rest) \/ t = Job(kind, k)
         /\ \A t \in BagToSet(rest) : t \in BagToSet(tasks')
         /\ OneByOne(tasks') => OneByOne(rest)
                /\ (kind \notin Aside => \A t \in BagToSet(rest) : t.kind \in Aside)
  <1>1. PICK u \in Task : u = Job(kind, k)
    OBVIOUS
  <1>2. tasks' = rest (+) SetToBag({u}) /\ u.kind = kind
    BY <1>1, Jobs
  <1>3. /\ TaskBag(tasks') /\ BagToSet(tasks') = BagToSet(rest) \cup {u}
        /\ OneByOne(tasks') => /\ OneByOne(rest)
                               /\ \A t \in BagToSet(rest) : (u.kind \in Aside \/ t.kind \in Aside)
    BY <1>2, BagPlus
  <1> QED BY <1>1, <1>2, <1>3

LEMMA Calming == Noted /\ ~overlap' => ~overlap /\ OneByOne(tasks')
  BY DEF Noted

\* What GuideInv consists of.
LEMMA GuideParts == GuideInv <=> GuideSafe /\ (~overlap => GuideCalm)
  BY DEF GuideInv, GuideSafe

LEMMA ClickNextGuide ==
  ASSUME GuideInv, ClickNext
  PROVE  GuideInv'
  <1> USE GuideParts
  <1>1. /\ Advance(onNext, Buttons, tasks, state) /\ Noted /\ ~finished /\ nextEnable
        /\ UNCHANGED <<joining, confirm, user, private, registered, lapsed, inviteLink,
                       signedIn, sockets>>
    BY DEF ClickNext, server, link
  <1>2. /\ GuideTypeOK /\ TaskBag(tasks) /\ state \in States
        /\ Buttons \in [next : BOOLEAN, back : BOOLEAN]
        /\ onNext \in {"null", "generate", "false"}
        /\ onNext # "null" => Buttons.next /\ Buttons.back
    BY <1>1 DEF GuideSafe, GuideTypeOK, TaskBag, States, Buttons, WayOn
  <1>3. GuideSafe'
    <2>1. TmcsTyped' /\ confirm' \in {"pending", "error"}
      BY <1>1, <1>2 DEF GuideTypeOK, TmcsTyped
    <2> QED BY <1>1, <1>2, <2>1, AdvanceSafe
  <1>4. ASSUME ~overlap' PROVE GuideCalm'
    <2>1. ~overlap /\ OneByOne(tasks') /\ GuideCalm
      BY <1>1, <1>4, Calming
    <2>2. CASE onNext = "null" /\ activePage < Final
      <3>1. Turn(activePage + 1, tasks, state) /\ activePage + 1 \in First..Final
        BY <2>2, <1>1, <1>2 DEF Advance, GuideTypeOK, First, Final
      <3>2. activePage \in {First, KeyResult} /\ activePage + 1 # Final
        BY <2>1, <2>2, <1>1, <1>2
           DEF GuideCalm, ButtonsFit, GuideTypeOK, First, KeyGen, KeyResult, SignUp, Final
      <3>3. ~Settled /\ state \in {"none", "registed"} /\ signedIn = 0
            /\ \A t \in BagToSet(tasks) : t.kind \notin Aside
        <4>1. ~Settled
          BY <3>2, <1>1 DEF Settled, First, KeyResult, Final
        <4> QED BY <4>1, <1>2, <2>1, Unsettled DEF GuideSafe
      <3>4. \A t \in BagToSet(tasks) :
              t.kind \in {"generate", "armor"} /\ activePage + 1 \in {First, KeyGen}
        <4> SUFFICES ASSUME NEW t \in BagToSet(tasks)
                     PROVE  t.kind \in {"generate", "armor"} /\ activePage + 1 \in {First, KeyGen}
          OBVIOUS
        <4>1. t.kind \in {"generate", "armor"}
          BY <1>1, <1>2, <2>1, <3>2, <3>3, Jobs
             DEF TaskBag, GuideCalm, TasksFit, Task, Aside, First, KeyResult, SignUp, Final
        <4>2. activePage = First
          BY <4>1, <2>1, <3>2 DEF GuideCalm, TasksFit, First, KeyGen, KeyResult
        <4> QED BY <4>1, <4>2 DEF First, KeyGen
      <3> QED BY <1>1, <1>2, <2>1, <3>1, <3>2, <3>3, <3>4, TurnCalm
    <2>3. CASE onNext = "null" /\ ~(activePage < Final)
      <3>1. activePage = Final /\ ~joining
        BY <2>1, <2>3, <1>1, <1>2 DEF GuideTypeOK, GuideCalm, ButtonsFit, First, Final
      <3>2. signedIn = 0 /\ state \in {"none", "registed"}
            /\ \A t \in BagToSet(tasks) : t.kind \notin Aside
        <4>1. ~Settled
          BY <3>1, <1>1 DEF Settled
        <4> QED BY <4>1, <1>2, <2>1, Unsettled DEF GuideSafe
      <3>3. \A t \in BagToSet(tasks) : t.kind = "draw"
        BY <1>2, <2>1, <3>1, <3>2, Jobs
           DEF TaskBag, GuideCalm, TasksFit, Task, Aside, First, KeyGen, SignUp, Final
      <3>4. user \in registered /\ inviteLink = user
        BY <2>1, <3>1 DEF GuideCalm, KeyFits
      <3>5. TmcsTyped' /\ confirm' \in {"pending", "error"}
        BY <1>1, <1>2 DEF GuideTypeOK, TmcsTyped
      <3> QED BY <1>1, <1>2, <2>1, <2>3, <3>1, <3>2, <3>3, <3>4, <3>5, FinishKeeps
    <2>4. CASE onNext # "null"
      <3>1. /\ nextEnable' = nextEnable /\ backEnable' = backEnable /\ finished' = FALSE
            /\ onNext' # "null"
            /\ tasks' = (IF onNext = "generate"
                         THEN tasks (+) Waiting("generate", made + 1) ELSE tasks)
            /\ onNext = "generate" => made + 1 \in 0..MaxKeys
            /\ state' = state /\ activePage' = activePage
        BY <1>1, <1>2, <2>4, GuideBoundsAssumption DEF Advance, Buttons, GuideTypeOK
      <3>2. activePage = KeyGen
        BY <2>1, <2>4 DEF GuideCalm, ButtonsFit
      <3>3. TasksFit'
        <4>1. \A t \in BagToSet(tasks') : t \in BagToSet(tasks) \/ t.kind = "generate"
          <5>1. CASE onNext = "generate"
            <6>1. Job("generate", made + 1) \in Task /\ Job("generate", made + 1).kind = "generate"
              BY <3>1, <5>1, Jobs
            <6> QED BY <6>1, <5>1, <3>1, <1>2, FollowedBy
          <5> QED BY <5>1, <3>1
        <4> QED BY <4>1, <3>1, <3>2, <2>1, <1>1 DEF GuideCalm, TasksFit, Aside
      <3>4. ButtonsFit' /\ KeyFits'
        BY <2>1, <3>1, <3>2, <1>1 DEF GuideCalm, ButtonsFit, KeyFits, Settled, KeyGen, SignUp, Final
      <3> QED BY <2>1, <3>3, <3>4 DEF GuideCalm
    <2> QED BY <2>2, <2>3, <2>4
  <1> QED BY <1>3, <1>4 DEF GuideInv, GuideSafe

LEMMA ClickBackGuide ==
  ASSUME GuideInv, ClickBack
  PROVE  GuideInv'
  <1>1. /\ Turn(activePage - 1, tasks, state) /\ Noted /\ ~finished /\ backEnable
        /\ activePage > First
        /\ UNCHANGED <<joining, confirm, user, private, registered, lapsed, inviteLink,
                       signedIn, sockets>>
    BY DEF ClickBack, server, link
  <1>2. GuideTypeOK /\ TaskBag(tasks) /\ state \in States /\ activePage - 1 \in First..Final
    BY <1>1 DEF GuideInv, GuideTypeOK, TaskBag, States, First, Final
  <1>3. \A t \in BagToSet(tasks) : t.kind # "open"
    BY <1>1 DEF GuideInv, Ending
  <1>4. GuideSafe'
    <2>1. TmcsTyped' /\ confirm' \in {"pending", "error"}
      BY <1>1, <1>2 DEF GuideTypeOK, TmcsTyped
    <2> QED BY <1>1, <1>2, <1>3, <2>1, TurnSafe
  <1>5. ASSUME ~overlap' PROVE GuideCalm'
    <2>1. ~overlap /\ OneByOne(tasks') /\ GuideCalm
      BY <1>1, <1>5, Calming DEF GuideInv
    <2>2. ~(activePage = Final /\ joining) /\ state \in {"none", "registed"} /\ signedIn = 0
          /\ \A t \in BagToSet(tasks) : t.kind \notin Aside
      <3>1. ~Settled
        BY <2>1, <1>1 DEF GuideCalm, ButtonsFit, Settled
      <3> QED BY <3>1, <1>2, <2>1, Unsettled DEF GuideInv, Settled
    <2>3. \A t \in BagToSet(tasks) :
            \/ t.kind \in {"generate", "armor"} /\ activePage - 1 \in {First, KeyGen}
            \/ t.kind = "draw" /\ activePage - 1 = SignUp
      BY <1>1, <1>2, <2>1, <2>2, Jobs
         DEF GuideCalm, TasksFit, TaskBag, Task, Aside, First, KeyGen, SignUp, Final
    <2>4. activePage - 1 # Final
      BY <1>2 DEF GuideTypeOK, First, Final
    <2> QED BY <1>1, <1>2, <2>1, <2>2, <2>3, <2>4, TurnCalm
  <1> QED BY <1>4, <1>5 DEF GuideInv, GuideSafe

LEMMA KeyMadeGuide ==
  ASSUME GuideInv, NEW k \in Keys, KeyMade(k)
  PROVE  GuideInv'
  <1>1. /\ Awaited("generate", k) /\ user' = k /\ Noted
        /\ tasks' = Without("generate", k) (+) Waiting("armor", k)
        /\ UNCHANGED <<joining, activePage, nextEnable, backEnable, onNext, finished, failed,
                       confirm, made, private, registered, lapsed, inviteLink, state, signedIn,
                       sockets>>
    BY DEF KeyMade, guide, server, link
  <1>2. GuideTypeOK /\ k \in 0..MaxKeys
    BY Jobs DEF GuideInv
  <1> DEFINE w == Without("generate", k)
  <1>3. /\ Job("generate", k) \in BagToSet(tasks) /\ TaskBag(w)
        /\ BagToSet(w) \subseteq BagToSet(tasks)
        /\ \A t \in BagToSet(tasks) : t.kind # "generate" => t \in BagToSet(w)
        /\ OneByOne(tasks) => \A t \in BagToSet(w) : t.kind \in Aside
    BY <1>1, <1>2, Away DEF Aside
  <1>4. /\ Job("armor", k) \in Task /\ Job("armor", k).kind = "armor"
        /\ Job("generate", k).kind = "generate"
    BY <1>2, Jobs
  <1>5. /\ TaskBag(tasks') /\ \A t \in BagToSet(tasks') : t \in BagToSet(w) \/ t.kind = "armor"
        /\ \A t \in BagToSet(w) : t \in BagToSet(tasks')
    BY <1>1, <1>3, <1>4, FollowedBy
  <1> HIDE DEF w
  <1>6. GuideTypeOK'
    BY <1>1, <1>2, <1>5 DEF GuideTypeOK, TaskBag
  <1>7. WayOn' /\ Ending'
    BY <1>1, <1>3, <1>5 DEF GuideInv, WayOn, Ending
  <1>8. ASSUME ~overlap' PROVE GuideCalm'
    <2>1. ~overlap /\ OneByOne(tasks') /\ GuideCalm
      BY <1>1, <1>8, Calming DEF GuideInv
    <2>2. activePage \in {First, KeyGen} /\ ~Settled
      BY <1>3, <1>4, <2>1
         DEF GuideInv, Ending, GuideCalm, TasksFit, Settled, First, KeyGen, Final
    <2>3. signedIn = 0 /\ BagToSet(w) = {}
      <3>1. signedIn = 0 /\ \A t \in BagToSet(tasks) : t.kind \notin Aside
        BY <1>2, <2>1, <2>2, Unsettled DEF GuideInv
      <3> QED BY <3>1, <1>3, <2>1 DEF GuideCalm
    <2>4. TasksFit'
      <3>1. \A t \in BagToSet(tasks') : t.kind = "armor"
        BY <1>5, <2>3
      <3> QED BY <3>1, <1>1, <2>2 DEF TasksFit, Aside
    <2>5. ButtonsFit' /\ KeyFits'
      BY <1>1, <2>1, <2>2, <2>3
         DEF GuideCalm, ButtonsFit, KeyFits, Settled, First, KeyGen, SignUp, Final
    <2> QED BY <2>1, <2>4, <2>5 DEF GuideCalm
  <1> QED BY <1>6, <1>7, <1>8 DEF GuideInv

LEMMA GeneratedGuide ==
  ASSUME GuideInv, NEW k \in Keys, Generated(k)
  PROVE  GuideInv'
  <1> DEFINE w == Without("armor", k)
  <1>1. /\ Awaited("armor", k) /\ private' = private \cup {k} /\ Noted
        /\ Advance("null", Buttons, w, state)
        /\ UNCHANGED <<joining, confirm, user, registered, lapsed, inviteLink, signedIn, sockets>>
    BY DEF Generated, server, link
  <1>2. GuideTypeOK /\ k \in 0..MaxKeys /\ state \in States
        /\ Buttons \in [next : BOOLEAN, back : BOOLEAN]
    BY Jobs DEF GuideInv, GuideTypeOK, States, Buttons
  <1>3. /\ Job("armor", k) \in BagToSet(tasks) /\ TaskBag(w)
        /\ BagToSet(w) \subseteq BagToSet(tasks)
        /\ OneByOne(tasks) => \A t \in BagToSet(w) : t.kind \in Aside
    BY <1>1, <1>2, Away DEF Aside
  <1> HIDE DEF w
  <1>4. GuideSafe'
    <2>1. TmcsTyped' /\ confirm' \in {"pending", "error"}
      <3>1. private' \cup registered' \subseteq Keys
        BY <1>1, <1>2 DEF GuideTypeOK
      <3> QED BY <3>1, <1>1, <1>2 DEF GuideTypeOK, TmcsTyped
    <2> QED BY <1>1, <1>2, <1>3, <2>1, AdvanceSafe DEF GuideInv, GuideSafe
  <1>5. ASSUME ~overlap' PROVE GuideCalm'
    <2>1. ~overlap /\ OneByOne(tasks') /\ GuideCalm
      BY <1>1, <1>5, Calming DEF GuideInv
    <2>2. activePage \in {First, KeyGen} /\ ~finished /\ ~Settled
      BY <1>3, <2>1, Jobs DEF GuideInv, Ending, GuideCalm, TasksFit, Settled, First, KeyGen, Final
    <2>3. Turn(activePage + 1, w, state) /\ activePage + 1 \in First..Final
          /\ activePage + 1 # Final
      BY <2>2, <1>1 DEF Advance, First, KeyGen, Final
    <2>4. signedIn = 0 /\ state \in {"none", "registed"}
          /\ \A t \in BagToSet(tasks) : t.kind \notin Aside
      BY <1>2, <2>1, <2>2, Unsettled DEF GuideInv
    <2>5. BagToSet(w) = {}
      BY <1>3, <2>1, <2>4 DEF GuideCalm
    <2> QED BY <1>1, <1>2, <1>3, <2>1, <2>2, <2>3, <2>4, <2>5, TurnCalm
  <1> QED BY <1>4, <1>5 DEF GuideInv, GuideSafe

LEMMA SignUpCallsGuide ==
  ASSUME GuideInv, SignUpCalls
  PROVE  GuideInv'
  <1> DEFINE w == Without("sleep", 0)
  <1>1. /\ Awaited("sleep", 0) /\ Noted
        /\ IF user \in private
           THEN tasks' = w (+) Waiting("register", user) /\ backEnable' = backEnable
           ELSE tasks' = w /\ backEnable' = TRUE
        /\ UNCHANGED <<joining, activePage, nextEnable, onNext, finished, failed, confirm, made,
                       user, private, registered, lapsed, inviteLink, state, signedIn, sockets>>
    BY DEF SignUpCalls, tmcs, server, link
  <1>2. GuideTypeOK
    BY DEF GuideInv
  <1>3. /\ Job("sleep", 0) \in BagToSet(tasks) /\ TaskBag(w)
        /\ BagToSet(w) \subseteq BagToSet(tasks)
        /\ \A t \in BagToSet(tasks) : t.kind # "sleep" => t \in BagToSet(w)
        /\ OneByOne(tasks) => OneByOne(w) /\ \A t \in BagToSet(w) : t.kind \in Aside
    BY <1>1, <1>2, Away DEF Aside
  <1> HIDE DEF w
  <1>4. Job("sleep", 0).kind = "sleep"
        /\ Job("register", user).kind = "register" /\ Job("register", user).key = user
    BY Jobs
  <1>5. /\ TaskBag(tasks') /\ \A t \in BagToSet(w) : t \in BagToSet(tasks')
        /\ \A t \in BagToSet(tasks') :
             t \in BagToSet(w) \/ (backEnable' = backEnable /\ t = Job("register", user))
        /\ backEnable' = TRUE \/ Job("register", user) \in BagToSet(tasks')
    <2>1. CASE user \in private
      <3>1. Job("register", user) \in Task
        BY <1>2, Jobs DEF GuideTypeOK
      <3> QED BY <2>1, <3>1, <1>1, <1>3, FollowedBy
    <2>2. CASE user \notin private
      BY <2>2, <1>1, <1>3
    <2> QED BY <2>1, <2>2
  <1>6. GuideTypeOK'
    <2>1. backEnable' \in BOOLEAN
      BY <1>1, <1>2 DEF GuideTypeOK
    <2> QED BY <2>1, <1>1, <1>2, <1>5 DEF GuideTypeOK, TaskBag
  <1>7. WayOn'
    <2>1. CASE backEnable'
      BY <2>1 DEF WayOn
    <2>2. CASE ~backEnable'
      <3>1. Job("register", user) \in BagToSet(tasks') /\ backEnable = backEnable'
        BY <2>2, <1>1, <1>5
      <3>2. CASE \E t \in BagToSet(tasks) : t.kind \in {"ask", "connect"}
        <4>1. \E t \in BagToSet(tasks') : t.kind \in {"ask", "connect"}
          BY <3>2, <1>3, <1>5
        <4> QED BY <1>1, <1>4, <3>1, <4>1 DEF GuideInv, WayOn
      <3>3. CASE ~\E t \in BagToSet(tasks) : t.kind \in {"ask", "connect"}
        BY <1>1, <1>4, <3>1, <3>3 DEF GuideInv, WayOn
      <3> QED BY <3>2, <3>3
    <2> QED BY <2>1, <2>2
  <1>8. Ending'
    <2>1. \A t \in BagToSet(tasks') : t \in BagToSet(w) \/ t.kind = "register"
      BY <1>4, <1>5
    <2> QED BY <2>1, <1>1, <1>3 DEF GuideInv, Ending
  <1>9. ASSUME ~overlap' PROVE GuideCalm'
    <2>1. ~overlap /\ OneByOne(tasks') /\ GuideCalm
      BY <1>1, <1>9, Calming DEF GuideInv
    <2>2. activePage = SignUp /\ ~backEnable /\ ~Settled
      BY <1>3, <1>4, <2>1 DEF GuideInv, Ending, GuideCalm, TasksFit, Settled, SignUp, Final
    <2>3. BagToSet(w) = {}
      <3>1. \A t \in BagToSet(tasks) : t.kind \notin Aside
        BY <1>2, <2>1, <2>2, Unsettled DEF GuideInv
      <3> QED BY <3>1, <1>3, <2>1 DEF GuideCalm
    <2>4. TasksFit'
      BY <1>1, <1>4, <1>5, <2>2, <2>3 DEF TasksFit, Aside
    <2>5. ButtonsFit' /\ KeyFits'
      BY <1>1, <2>1, <2>2 DEF GuideCalm, ButtonsFit, KeyFits, Settled, SignUp, Final
    <2> QED BY <2>1, <2>4, <2>5 DEF GuideCalm
  <1> QED BY <1>6, <1>7, <1>8, <1>9 DEF GuideInv

LEMMA RegisteredGuide ==
  ASSUME GuideInv, NEW k \in Keys, Registered(k)
  PROVE  GuideInv'
  <1> DEFINE w == Without("register", k)
             buttons == [next |-> TRUE, back |-> TRUE]
  <1>1. /\ Awaited("register", k) /\ Noted
        /\ registered' = registered \cup {k} /\ lapsed' = lapsed \ {k}
        /\ inviteLink' = (IF joining THEN inviteLink ELSE k)
        /\ Advance(onNext, buttons, w, "registed")
        /\ UNCHANGED <<joining, confirm, user, private, signedIn, sockets>>
    BY DEF Registered, Takes, link
  <1>2. GuideTypeOK /\ k \in 0..MaxKeys /\ "registed" \in States
        /\ onNext \in {"null", "generate", "false"}
        /\ buttons \in [next : BOOLEAN, back : BOOLEAN] /\ buttons.next /\ buttons.back
    BY Jobs DEF GuideInv, GuideTypeOK, States
  <1>3. /\ Job("register", k) \in BagToSet(tasks) /\ TaskBag(w)
        /\ BagToSet(w) \subseteq BagToSet(tasks)
        /\ OneByOne(tasks) => \A t \in BagToSet(w) : t.kind \in Aside
    BY <1>1, <1>2, Away DEF Aside
  <1> HIDE DEF w, buttons
  <1>4. GuideSafe'
    <2>1. TmcsTyped' /\ confirm' \in {"pending", "error"}
      BY <1>1, <1>2 DEF GuideTypeOK, TmcsTyped
    <2> QED BY <1>1, <1>2, <1>3, <2>1, AdvanceSafe DEF GuideInv, GuideSafe
  <1>5. ASSUME ~overlap' PROVE GuideCalm'
    <2>1. ~overlap /\ OneByOne(tasks') /\ GuideCalm
      BY <1>1, <1>5, Calming DEF GuideInv
    <2>2. activePage = SignUp /\ ~finished /\ ~Settled /\ user = k
      BY <1>3, <2>1, Jobs DEF GuideInv, Ending, GuideCalm, TasksFit, Settled, SignUp, Final
    <2>3. onNext = "null"
      BY <2>1, <2>2 DEF GuideCalm, ButtonsFit, SignUp, KeyGen
    <2>4. Turn(activePage + 1, w, "registed") /\ activePage + 1 \in First..Final
      BY <2>2, <2>3, <1>1 DEF Advance, First, SignUp, Final
    <2>5. signedIn = 0 /\ BagToSet(w) = {}
      <3>1. signedIn = 0 /\ \A t \in BagToSet(tasks) : t.kind \notin Aside
        BY <1>2, <2>1, <2>2, Unsettled DEF GuideInv
      <3> QED BY <3>1, <1>3, <2>1 DEF GuideCalm
    <2>6. user' \in registered' /\ (joining \/ inviteLink' = user')
      BY <1>1, <2>2
    <2> QED BY <1>1, <1>2, <1>3, <2>1, <2>2, <2>4, <2>5, <2>6, TurnCalm
  <1> QED BY <1>4, <1>5 DEF GuideInv, GuideSafe

LEMMA NotRegisteredGuide ==
  ASSUME GuideInv, NEW k \in Keys, NotRegistered(k)
  PROVE  GuideInv'
  <1> DEFINE w == Without("register", k)
  <1>1. /\ Awaited("register", k) /\ Noted /\ tasks' = w /\ backEnable' = TRUE
        /\ \/ registered' = registered \cup {k} /\ lapsed' = lapsed \ {k}
           \/ UNCHANGED <<registered, lapsed>>
        /\ UNCHANGED <<joining, activePage, nextEnable, onNext, finished, failed, confirm, made,
                       user, private, inviteLink, state, signedIn, sockets>>
    BY DEF NotRegistered, Takes, server, link
  <1>2. GuideTypeOK
    BY DEF GuideInv
  <1>3. /\ Job("register", k) \in BagToSet(tasks) /\ TaskBag(w)
        /\ BagToSet(w) \subseteq BagToSet(tasks)
        /\ OneByOne(tasks) => \A t \in BagToSet(w) : t.kind \in Aside
    BY <1>1, <1>2, Away DEF Aside
  <1> HIDE DEF w
  <1>4. GuideTypeOK' /\ WayOn' /\ Ending'
    <2>1. registered' \subseteq Keys /\ lapsed' \subseteq registered'
      BY <1>1, <1>2 DEF GuideTypeOK
    <2> QED BY <1>1, <1>2, <1>3, <2>1 DEF GuideInv, GuideTypeOK, TaskBag, WayOn, Ending
  <1>5. ASSUME ~overlap' PROVE GuideCalm'
    <2>1. ~overlap /\ OneByOne(tasks') /\ GuideCalm
      BY <1>1, <1>5, Calming DEF GuideInv
    <2>2. activePage = SignUp /\ ~Settled
      BY <1>3, <2>1, Jobs DEF GuideInv, Ending, GuideCalm, TasksFit, Settled, SignUp, Final
    <2>3. BagToSet(w) = {}
      <3>1. \A t \in BagToSet(tasks) : t.kind \notin Aside
        BY <1>2, <2>1, <2>2, Unsettled DEF GuideInv
      <3> QED BY <3>1, <1>3, <2>1 DEF GuideCalm
    <2>4. TasksFit'
      BY <1>1, <2>3 DEF TasksFit
    <2>5. ButtonsFit' /\ KeyFits'
      BY <1>1, <2>1, <2>2 DEF GuideCalm, ButtonsFit, KeyFits, Settled, SignUp, Final
    <2> QED BY <2>1, <2>4, <2>5 DEF GuideCalm
  <1> QED BY <1>4, <1>5 DEF GuideInv

\* The server drops a key.
LEMMA LapseGuide ==
  ASSUME GuideInv, NEW k \in Keys, Lapse(k)
  PROVE  GuideInv'
  <1>1. /\ k \in registered /\ lapsed' = lapsed \cup {k}
        /\ UNCHANGED <<joining, activePage, nextEnable, backEnable, onNext, finished, failed,
                       confirm, tasks, made, user, private, registered, inviteLink, state,
                       signedIn, sockets, overlap>>
    BY DEF Lapse, Known, guide, link
  <1>2. GuideTypeOK'
    BY <1>1 DEF GuideInv, GuideTypeOK
  <1>3. WayOn' /\ Ending' /\ (~overlap' => GuideCalm')
    BY <1>1 DEF GuideInv, WayOn, Ending, GuideCalm, OneByOne, TasksFit, ButtonsFit, KeyFits,
                Settled
  <1> QED BY <1>2, <1>3 DEF GuideInv

LEMMA NotGeneratedGuide ==
  ASSUME GuideInv, NEW k \in Keys, NotGenerated(k)
  PROVE  GuideInv'
  <1>1. PICK kind \in {"generate", "armor"} : Awaited(kind, k) /\ tasks' = Without(kind, k)
    BY DEF NotGenerated
  <1>2. /\ Noted
        /\ UNCHANGED <<joining, activePage, nextEnable, backEnable, onNext, finished, failed,
                       confirm, made, user, private, registered, lapsed, inviteLink, state,
                       signedIn, sockets>>
    BY DEF NotGenerated, guide, tmcs, server, link
  <1>3. /\ TaskBag(tasks') /\ BagToSet(tasks') \subseteq BagToSet(tasks)
        /\ \A t \in BagToSet(tasks) : t.kind # kind => t \in BagToSet(tasks')
    BY <1>1, Away DEF GuideInv
  <1>4. GuideTypeOK' /\ Ending'
    BY <1>2, <1>3 DEF GuideInv, GuideTypeOK, TaskBag, Ending
  <1>5. WayOn'
    <2>1. \A t \in BagToSet(tasks) :
            t.kind \in {"sleep", "register", "ask", "connect"} => t \in BagToSet(tasks')
      BY <1>3
    <2> QED BY <2>1, <1>2 DEF GuideInv, WayOn
  <1>6. ASSUME ~overlap' PROVE GuideCalm'
    <2>1. ~overlap /\ OneByOne(tasks') /\ GuideCalm
      BY <1>2, <1>6, Calming DEF GuideInv
    <2>2. TasksFit' /\ ButtonsFit' /\ KeyFits'
      BY <1>2, <1>3, <2>1 DEF GuideCalm, TasksFit, ButtonsFit, KeyFits, Settled
    <2> QED BY <2>1, <2>2 DEF GuideCalm
  <1> QED BY <1>4, <1>5, <1>6 DEF GuideInv

LEMMA QrDrawnGuide ==
  ASSUME GuideInv, QrDrawn
  PROVE  GuideInv'
  <1> DEFINE w == Without("draw", 0)
  <1>1. /\ Awaited("draw", 0) /\ Noted /\ tasks' = w /\ nextEnable' = TRUE
        /\ UNCHANGED <<joining, activePage, backEnable, onNext, finished, failed, confirm, made,
                       user, private, registered, lapsed, inviteLink, state, signedIn, sockets>>
    BY DEF QrDrawn, tmcs, server, link
  <1>2. GuideTypeOK
    BY DEF GuideInv
  <1>3. /\ Job("draw", 0) \in BagToSet(tasks) /\ TaskBag(w)
        /\ BagToSet(w) \subseteq BagToSet(tasks)
    BY <1>1, <1>2, Away
  <1> HIDE DEF w
  <1>4. GuideTypeOK' /\ WayOn' /\ Ending'
    BY <1>1, <1>2, <1>3 DEF GuideInv, GuideTypeOK, TaskBag, WayOn, Ending
  <1>5. ASSUME ~overlap' PROVE GuideCalm'
    <2>1. ~overlap /\ OneByOne(tasks') /\ GuideCalm
      BY <1>1, <1>5, Calming DEF GuideInv
    <2>2. activePage = Final /\ ~joining
      BY <1>3, <2>1, Jobs DEF GuideCalm, TasksFit
    <2>3. TasksFit'
      BY <1>1, <1>3, <2>1 DEF GuideCalm, TasksFit
    <2>4. ButtonsFit' /\ KeyFits'
      BY <1>1, <2>1, <2>2 DEF GuideCalm, ButtonsFit, KeyFits, Settled, SignUp, Final
    <2> QED BY <2>1, <2>3, <2>4 DEF GuideCalm
  <1> QED BY <1>4, <1>5 DEF GuideInv

LEMMA ConnectedGuide ==
  ASSUME GuideInv, NEW kind \in {"connect", "open", "reconnect"}, Connected(kind)
  PROVE  GuideInv'
  <1> DEFINE w == Without(kind, 0)
  <1>1. /\ Awaited(kind, 0) /\ user \in registered /\ Noted
        /\ state' = "ready" /\ signedIn' = user /\ sockets' = sockets + 1
        /\ tasks' = (IF kind = "connect" THEN w (+) Waiting("ask", 0) ELSE w)
        /\ UNCHANGED <<joining, activePage, nextEnable, backEnable, onNext, finished, failed,
                       confirm, made, user, private, registered, lapsed, inviteLink>>
    BY DEF Connected, Known, guide, server
  <1>2. GuideTypeOK /\ user # 0
    BY <1>1 DEF GuideInv, GuideTypeOK, Keys
  <1>3. /\ Job(kind, 0) \in BagToSet(tasks) /\ TaskBag(w)
        /\ BagToSet(w) \subseteq BagToSet(tasks)
        /\ \A t \in BagToSet(tasks) : t.kind # kind => t \in BagToSet(w)
        /\ OneByOne(tasks) => /\ kind = "connect" => \A t \in BagToSet(w) : t.kind \in Aside
                              /\ \A t \in BagToSet(w) : t # Job(kind, 0)
    BY <1>1, <1>2, Away DEF Aside
  <1> HIDE DEF w
  <1>4. /\ Job("ask", 0) \in Task /\ Job("ask", 0).kind = "ask" /\ Job(kind, 0).kind = kind
    BY Jobs
  <1>5. /\ TaskBag(tasks') /\ \A t \in BagToSet(w) : t \in BagToSet(tasks')
        /\ \A t \in BagToSet(tasks') :
             t \in BagToSet(w) \/ (kind = "connect" /\ t = Job("ask", 0))
        /\ kind = "connect" => Job("ask", 0) \in BagToSet(tasks')
    <2>1. CASE kind = "connect"
      BY <2>1, <1>1, <1>3, <1>4, FollowedBy
    <2>2. CASE kind # "connect"
      BY <2>2, <1>1, <1>3
    <2> QED BY <2>1, <2>2
  <1>6. GuideTypeOK'
    BY <1>1, <1>2, <1>5 DEF GuideTypeOK, TaskBag
  <1>7. WayOn'
    <2>1. CASE kind # "connect"
      <3>1. \A t \in BagToSet(tasks) :
              t.kind \in {"sleep", "register", "ask", "connect"} => t \in BagToSet(tasks')
        BY <2>1, <1>1, <1>3
      <3> QED BY <3>1, <1>1 DEF GuideInv, WayOn
    <2>2. CASE kind = "connect"
      <3>1. \E t \in BagToSet(tasks') : t.kind = "ask"
        BY <2>2, <1>4, <1>5
      <3>2. \A t \in BagToSet(tasks) : t.kind \in {"sleep", "register"} => t \in BagToSet(tasks')
        BY <2>2, <1>3, <1>5
      <3> QED BY <3>1, <3>2, <1>1 DEF GuideInv, WayOn
    <2> QED BY <2>1, <2>2
  <1>8. Ending'
    <2>1. \A t \in BagToSet(tasks') : t \in BagToSet(tasks) \/ t.kind = "ask"
      BY <1>3, <1>4, <1>5
    <2> QED BY <2>1, <1>1 DEF GuideInv, Ending
  <1>9. ASSUME ~overlap' PROVE GuideCalm'
    <2>1. ~overlap /\ OneByOne(tasks') /\ GuideCalm
      BY <1>1, <1>9, Calming DEF GuideInv
    <2>2. Settled /\ activePage = Final
      BY <1>3, <1>4, <2>1 DEF GuideInv, Ending, GuideCalm, TasksFit, KeyFits, Settled
    <2>3. \A t \in BagToSet(w) : t.kind \in {"draw", "ask"}
      <3> SUFFICES ASSUME NEW t \in BagToSet(w) PROVE t.kind \in {"draw", "ask"}
        OBVIOUS
      <3>1. /\ t \in BagToSet(tasks) /\ t \in Task /\ t # Job(kind, 0)
            /\ Job(kind, 0) \in BagToSet(tasks)
        BY <1>2, <1>3, <2>1 DEF GuideTypeOK, GuideCalm
      <3>2. t.kind # kind
        <4>1. t.kind \in Aside => t.key = 0
          BY <3>1, <2>1 DEF GuideCalm, TasksFit
        <4>2. kind = "connect" => t.kind \in Aside
          BY <3>1, <1>3, <2>1 DEF GuideCalm
        <4> QED BY <3>1, <4>1, <4>2, Jobs DEF Aside
      <3>3. kind = "connect" => signedIn = 0 /\ ~finished /\ t.kind \in {"open", "reconnect"}
        <4>1. kind = "connect" => t.kind \in Aside
          BY <3>1, <1>3, <2>1 DEF GuideCalm
        <4> QED BY <3>1, <1>4, <2>1, <4>1 DEF GuideCalm, TasksFit, Aside
      <3>4. kind = "open" => signedIn = 0 /\ finished
        BY <3>1, <1>4, <2>1 DEF GuideInv, Ending, GuideCalm, TasksFit
      <3>5. kind = "reconnect" => signedIn # 0
        BY <3>1, <1>4, <2>1 DEF GuideCalm, TasksFit
      <3>6. /\ t.kind \in {"connect", "open"} => signedIn = 0
            /\ t.kind = "reconnect" => signedIn # 0
            /\ t.kind = "connect" => ~finished
            /\ t.kind = "open" => finished
            /\ t.kind \notin {"generate", "armor", "sleep", "register"}
        BY <3>1, <2>1, <2>2
           DEF GuideInv, Ending, GuideCalm, TasksFit, First, KeyGen, SignUp, Final
      <3>7. t.kind \in Kinds
        BY <3>1 DEF Task
      <3> QED BY <3>2, <3>3, <3>4, <3>5, <3>6, <3>7, Jobs
    <2>4. TasksFit'
      <3> SUFFICES ASSUME NEW t \in BagToSet(tasks')
                   PROVE  \/ t.kind = "draw" /\ ~joining
                          \/ t.kind = "ask" /\ joining /\ ~finished
        BY <1>1, <1>2, <2>2 DEF TasksFit, Aside
      <3>1. CASE t \in BagToSet(w)
        BY <3>1, <1>3, <2>1, <2>3 DEF GuideCalm, TasksFit
      <3>2. CASE kind = "connect" /\ t = Job("ask", 0)
        BY <3>2, <1>3, <1>4, <2>1 DEF GuideCalm, TasksFit
      <3> QED BY <3>1, <3>2, <1>5
    <2>5. ButtonsFit' /\ KeyFits'
      BY <1>1, <1>2, <2>1, <2>2 DEF GuideCalm, ButtonsFit, KeyFits, Settled, SignUp, Final
    <2> QED BY <2>1, <2>4, <2>5 DEF GuideCalm
  <1> QED BY <1>6, <1>7, <1>8, <1>9 DEF GuideInv

LEMMA NotConnectedGuide ==
  ASSUME GuideInv, NEW kind \in {"connect", "open", "reconnect"}, NotConnected(kind)
  PROVE  GuideInv'
  <1> DEFINE w == Without(kind, 0)
  <1>1. /\ Awaited(kind, 0) /\ Noted /\ tasks' = w
        /\ failed' = (failed \/ kind = "connect")
        /\ UNCHANGED <<joining, activePage, nextEnable, backEnable, onNext, finished, confirm,
                       made, user, private, registered, lapsed, inviteLink, state, signedIn,
                       sockets>>
    BY DEF NotConnected, tmcs, server, link
  <1>2. GuideTypeOK
    BY DEF GuideInv
  <1>3. /\ TaskBag(w) /\ BagToSet(w) \subseteq BagToSet(tasks)
        /\ \A t \in BagToSet(tasks) : t.kind # kind => t \in BagToSet(w)
    BY <1>1, <1>2, Away
  <1> HIDE DEF w
  <1>4. GuideTypeOK' /\ Ending'
    <2>1. failed' \in BOOLEAN
      BY <1>1
    <2> QED BY <1>1, <1>2, <1>3, <2>1 DEF GuideInv, GuideTypeOK, TaskBag, Ending
  <1>5. WayOn'
    <2>1. CASE kind = "connect"
      <3>1. \A t \in BagToSet(tasks) : t.kind \in {"sleep", "register"} => t \in BagToSet(tasks')
        BY <2>1, <1>1, <1>3
      <3> QED BY <2>1, <3>1, <1>1 DEF GuideInv, WayOn
    <2>2. CASE kind # "connect"
      <3>1. \A t \in BagToSet(tasks) :
              t.kind \in {"sleep", "register", "ask", "connect"} => t \in BagToSet(tasks')
        BY <2>2, <1>1, <1>3
      <3> QED BY <2>2, <3>1, <1>1 DEF GuideInv, WayOn
    <2> QED BY <2>1, <2>2
  <1>6. ASSUME ~overlap' PROVE GuideCalm'
    <2>1. ~overlap /\ OneByOne(tasks') /\ GuideCalm
      BY <1>1, <1>6, Calming DEF GuideInv
    <2>2. TasksFit' /\ ButtonsFit' /\ KeyFits'
      BY <1>1, <1>3, <2>1 DEF GuideCalm, TasksFit, ButtonsFit, KeyFits, Settled
    <2> QED BY <2>1, <2>2 DEF GuideCalm
  <1> QED BY <1>4, <1>5, <1>6 DEF GuideInv

\* A connection ends, and the client connects anew.
LEMMA DisconnectedGuide ==
  ASSUME GuideInv, Disconnected
  PROVE  GuideInv'
  <1>1. /\ sockets > 0 /\ sockets' = sockets - 1 /\ Noted
        /\ IF state = "connecting" THEN tasks' = tasks /\ state' = state
           ELSE tasks' = tasks (+) Waiting("reconnect", 0) /\ state' = "connecting"
        /\ UNCHANGED <<joining, activePage, nextEnable, backEnable, onNext, finished, failed,
                       confirm, made, user, private, registered, lapsed, inviteLink, signedIn>>
    BY DEF Disconnected, guide, server
  <1>2. GuideTypeOK /\ TaskBag(tasks) /\ signedIn # 0
    BY <1>1 DEF GuideInv, GuideTypeOK, TaskBag
  <1>3. /\ TaskBag(tasks') /\ \A t \in BagToSet(tasks) : t \in BagToSet(tasks')
        /\ \A t \in BagToSet(tasks') :
             \/ t \in BagToSet(tasks)
             \/ t.kind = "reconnect" /\ t.key = 0 /\ state' = "connecting"
    <2>1. CASE state = "connecting"
      BY <2>1, <1>1, <1>2
    <2>2. CASE state # "connecting"
      <3>1. /\ Job("reconnect", 0) \in Task
            /\ Job("reconnect", 0).kind = "reconnect" /\ Job("reconnect", 0).key = 0
        BY Jobs
      <3> QED BY <2>2, <3>1, <1>1, <1>2, FollowedBy
    <2> QED BY <2>1, <2>2
  <1>4. GuideTypeOK'
    <2>1. sockets' \in Nat /\ state' \in {"none", "registed", "connecting", "ready"}
      BY <1>1, <1>2 DEF GuideTypeOK
    <2> QED BY <2>1, <1>1, <1>2, <1>3 DEF GuideTypeOK, TaskBag
  <1>5. WayOn' /\ Ending'
    BY <1>1, <1>3 DEF GuideInv, WayOn, Ending
  <1>6. ASSUME ~overlap' PROVE GuideCalm'
    <2>1. ~overlap /\ OneByOne(tasks') /\ GuideCalm
      BY <1>1, <1>6, Calming DEF GuideInv
    <2>2. state' \in {"connecting", "ready"} /\ (state = "connecting" => state' = state)
          /\ (state' = "ready" => FALSE) /\ Settled
      BY <1>1, <1>2, <2>1 DEF GuideCalm, KeyFits
    <2>3. TasksFit'
      <3> SUFFICES ASSUME NEW t \in BagToSet(tasks') PROVE
             /\ t.kind \in {"generate", "armor"} => activePage \in {First, KeyGen}
             /\ t.kind \in {"sleep", "register"} => activePage = SignUp /\ ~backEnable
             /\ t.kind = "register" => t.key = user
             /\ t.kind = "draw" => activePage = Final /\ ~joining
             /\ t.kind \in {"connect", "ask"} => joining /\ activePage = Final /\ ~finished
             /\ t.kind \notin {"connect", "open"}
             /\ t.kind = "reconnect" => state' = "connecting"
             /\ t.kind \in Aside => t.key = 0
        BY <1>1, <1>2 DEF TasksFit
      <3>1. CASE t \in BagToSet(tasks)
        BY <3>1, <1>2, <2>1, <2>2 DEF GuideCalm, TasksFit
      <3>2. CASE t.kind = "reconnect" /\ t.key = 0 /\ state' = "connecting"
        BY <3>2
      <3> QED BY <3>1, <3>2, <1>3
    <2>4. ButtonsFit' /\ KeyFits'
      BY <1>1, <1>2, <2>1, <2>2 DEF GuideCalm, ButtonsFit, KeyFits, Settled
    <2> QED BY <2>1, <2>3, <2>4 DEF GuideCalm
  <1> QED BY <1>4, <1>5, <1>6 DEF GuideInv

LEMMA AcceptedGuide ==
  ASSUME GuideInv, Accepted
  PROVE  GuideInv'
  <1> DEFINE w == Without("ask", 0)
             buttons == [next |-> TRUE, back |-> backEnable]
  <1>1. /\ Awaited("ask", 0) /\ Noted
        /\ Advance(onNext, buttons, w, state)
        /\ UNCHANGED <<joining, confirm, user, private, registered, lapsed, inviteLink,
                       signedIn, sockets>>
    BY DEF Accepted, server, link
  <1>2. GuideTypeOK /\ state \in States
        /\ onNext \in {"null", "generate", "false"}
        /\ buttons \in [next : BOOLEAN, back : BOOLEAN]
    BY DEF GuideInv, GuideTypeOK, States
  <1>3. onNext # "null" => buttons.next /\ buttons.back
    BY DEF GuideInv, WayOn
  <1>4. /\ Job("ask", 0) \in BagToSet(tasks) /\ TaskBag(w)
        /\ BagToSet(w) \subseteq BagToSet(tasks)
        /\ OneByOne(tasks) => \A t \in BagToSet(w) : t.kind \in Aside
    BY <1>1, <1>2, Away DEF Aside
  <1> HIDE DEF w, buttons
  <1>5. TmcsTyped' /\ confirm' \in {"pending", "error"}
    BY <1>1, <1>2 DEF GuideTypeOK, TmcsTyped
  <1>6. GuideSafe'
    BY <1>1, <1>2, <1>3, <1>4, <1>5, AdvanceSafe DEF GuideInv, GuideSafe
  <1>7. ASSUME ~overlap' PROVE GuideCalm'
    <2>1. ~overlap /\ OneByOne(tasks') /\ GuideCalm
      BY <1>1, <1>7, Calming DEF GuideInv
    <2>2. activePage = Final /\ joining /\ ~finished /\ signedIn # 0
      BY <1>4, <2>1, Jobs DEF GuideCalm, TasksFit
    <2>3. onNext = "null" /\ user \in registered /\ signedIn = user
          /\ state \in {"connecting", "ready"}
      BY <2>1, <2>2 DEF GuideCalm, ButtonsFit, KeyFits, Final, KeyGen
    <2>4. \A t \in BagToSet(w) : t.kind = "reconnect" /\ t.key = 0 /\ state = "connecting"
      <3>1. \A t \in BagToSet(w) : t \in BagToSet(tasks) /\ t.kind \in {"open", "reconnect"}
        BY <1>4, <2>1 DEF GuideCalm, Aside
      <3> QED BY <3>1, <2>1, <2>2 DEF GuideInv, Ending, GuideCalm, TasksFit, Aside
    <2> QED BY <1>5, <1>1, <1>2, <1>4, <2>1, <2>2, <2>3, <2>4, FinishKeeps
            DEF GuideInv, GuideSafe
  <1> QED BY <1>6, <1>7 DEF GuideInv, GuideSafe

LEMMA RejectedGuide ==
  ASSUME GuideInv, Rejected
  PROVE  GuideInv'
  <1> DEFINE w == Without("ask", 0)
  <1>1. /\ Awaited("ask", 0) /\ Noted /\ tasks' = w /\ confirm' = "error"
        /\ UNCHANGED <<joining, activePage, nextEnable, backEnable, onNext, finished, failed,
                       made, user, private, registered, lapsed, inviteLink, state, signedIn,
                       sockets>>
    BY DEF Rejected, tmcs, guide, server, link
  <1>2. GuideTypeOK
    BY DEF GuideInv
  <1>3. /\ TaskBag(w) /\ BagToSet(w) \subseteq BagToSet(tasks)
        /\ \A t \in BagToSet(tasks) : t.kind # "ask" => t \in BagToSet(w)
    BY <1>1, <1>2, Away
  <1> HIDE DEF w
  <1>4. GuideTypeOK' /\ Ending'
    BY <1>1, <1>2, <1>3 DEF GuideInv, GuideTypeOK, TaskBag, Ending
  <1>5. WayOn'
    <2>1. \A t \in BagToSet(tasks) : t.kind \in {"sleep", "register"} => t \in BagToSet(tasks')
      BY <1>1, <1>3
    <2> QED BY <2>1, <1>1 DEF GuideInv, WayOn
  <1>6. ASSUME ~overlap' PROVE GuideCalm'
    <2>1. ~overlap /\ OneByOne(tasks') /\ GuideCalm
      BY <1>1, <1>6, Calming DEF GuideInv
    <2>2. TasksFit' /\ ButtonsFit' /\ KeyFits'
      BY <1>1, <1>3, <2>1 DEF GuideCalm, TasksFit, ButtonsFit, KeyFits, Settled
    <2> QED BY <2>1, <2>2 DEF GuideCalm
  <1> QED BY <1>4, <1>5, <1>6 DEF GuideInv

-----------------------------------------------------------------------------
(* The guide as a part of the client.                                      *)

\* A step of the guide.
GuideStep ==
    \/ ClickNext \/ ClickBack
    \/ \E k \in Keys : \/ KeyMade(k) \/ Generated(k) \/ NotGenerated(k)
                       \/ Registered(k) \/ NotRegistered(k) \/ Lapse(k)
    \/ SignUpCalls \/ QrDrawn \/ Accepted \/ Rejected \/ Disconnected
    \/ \E kind \in {"connect", "open", "reconnect"} : Connected(kind) \/ NotConnected(kind)

LEMMA GuideStepKeeps == GuideInv /\ GuideStep => GuideInv'
  BY ClickNextGuide, ClickBackGuide, KeyMadeGuide, GeneratedGuide, RegisteredGuide,
     NotRegisteredGuide, SignUpCallsGuide, QrDrawnGuide, AcceptedGuide, RejectedGuide,
     ConnectedGuide, NotConnectedGuide, NotGeneratedGuide, LapseGuide, DisconnectedGuide
     DEF GuideStep

LEMMA GuideStutter ==
  ASSUME GuideInv, UNCHANGED guideVars
  PROVE  GuideInv'
  BY DEF GuideInv, GuideTypeOK, WayOn, Ending, GuideCalm, TasksFit, ButtonsFit, KeyFits, Settled,
         OneByOne, guideVars, guide, tmcs, server, link

\* Before the invite link is known nothing has happened.
Fresh ==
    /\ activePage = First /\ ~finished /\ nextEnable /\ onNext = "null"
    /\ tasks = EmptyBag /\ state = "none" /\ registered = {} /\ signedIn = 0

AppGuideInv == GuideInv /\ (app = "loading" => Fresh)

LEMMA LoadedGuide ==
  ASSUME AppGuideInv, Loaded
  PROVE  AppGuideInv'
  <1>1. /\ Fresh /\ app' = "startup" /\ joining' \in BOOLEAN
        /\ UNCHANGED <<activePage, nextEnable, backEnable, onNext, finished, failed, confirm,
                       tasks, made, user, private, registered, lapsed, inviteLink, state,
                       signedIn, sockets, overlap>>
    BY DEF AppGuideInv, Loaded, guide, tmcs, server, link
  <1>2. GuideTypeOK' /\ WayOn' /\ Ending'
    BY <1>1 DEF AppGuideInv, GuideInv, GuideTypeOK, WayOn, Ending
  <1>3. BagToSet(tasks') = {} /\ OneByOne(tasks')
    BY <1>1, BagEmpty DEF Fresh
  <1>4. TasksFit' /\ ButtonsFit' /\ KeyFits'
    BY <1>1, <1>3 DEF Fresh, TasksFit, ButtonsFit, KeyFits, First, KeyGen, SignUp, Final
  <1> QED BY <1>1, <1>2, <1>3, <1>4 DEF AppGuideInv, GuideInv, GuideCalm

LEMMA AppGuideInit == Init => AppGuideInv
  <1> SUFFICES ASSUME Init PROVE AppGuideInv
    OBVIOUS
  <1>1. GuideTypeOK
    <2>1. IsABag(tasks) /\ BagToSet(tasks) \subseteq Task
      BY BagEmpty DEF Init, GuideInit, TaskBag
    <2>2. 0 \in 0..MaxKeys
      BY GuideBoundsAssumption
    <2>3. /\ joining \in BOOLEAN /\ nextEnable \in BOOLEAN /\ backEnable \in BOOLEAN
          /\ finished \in BOOLEAN /\ failed \in BOOLEAN
      BY DEF Init, GuideInit
    <2>4. activePage \in First..Final
      BY DEF Init, GuideInit, First, Final
    <2>5. /\ onNext \in {"null", "generate", "false"} /\ confirm \in {"pending", "error"}
          /\ state \in {"none", "registed", "connecting", "ready"}
          /\ private \cup registered \subseteq Keys /\ lapsed \subseteq registered
      BY DEF Init, GuideInit
    <2>6. made \in 0..MaxKeys /\ user \in 0..MaxKeys /\ inviteLink \in 0..MaxKeys
          /\ signedIn \in 0..MaxKeys /\ sockets = 0
      BY <2>2 DEF Init, GuideInit
    <2> QED BY <2>1, <2>3, <2>4, <2>5, <2>6 DEF GuideTypeOK
  <1>2. BagToSet(tasks) = {} /\ OneByOne(tasks)
    BY BagEmpty DEF Init, GuideInit
  <1>3. WayOn /\ Ending /\ TasksFit /\ ButtonsFit /\ KeyFits
    BY <1>2 DEF Init, GuideInit, WayOn, Ending, TasksFit, ButtonsFit, KeyFits, First, KeyGen,
                SignUp, Final
  <1> QED BY <1>1, <1>2, <1>3 DEF AppGuideInv, GuideInv, GuideCalm, Fresh, Init, GuideInit

\* A step of the client is one of the guide, or leaves the guide alone.
LEMMA AppSteps ==
  ASSUME [Next]_vars
  PROVE  \/ Loaded
         \/ /\ GuideStep /\ app' \in {app, "ready"}
            /\ app = "startup" \/ tasks # EmptyBag \/ registered # {} \/ sockets # 0
         \/ UNCHANGED <<guideVars, app>>
  <1>1. ASSUME NEW kind, NEW k, Awaited(kind, k) PROVE tasks # EmptyBag
    <2>1. BagToSet(EmptyBag) = {}
      BY BagEmpty
    <2> QED BY <1>1, <2>1 DEF Awaited, BagIn
  <1>2. ASSUME NEW v, Completes(v) PROVE app' \in {app, "ready"}
    BY <1>2 DEF Completes
  <1>3. CASE Loaded
    BY <1>3
  <1>4. CASE Click
    BY <1>4, <1>2 DEF Click, GuideStep
  <1>5. ASSUME NEW k \in Keys, KeyTask(k)
        PROVE  GuideStep /\ (tasks # EmptyBag \/ registered # {}) /\ app' \in {app, "ready"}
    BY <1>5, <1>1, <1>2
       DEF KeyTask, GuideStep, KeyMade, Generated, NotGenerated, Registered, NotRegistered, Lapse,
           Known
  <1>6. CASE PageTask \/ Connection \/ WaitConfirmConnected \/ InviterAccepts \/ PageConnected
    <2>1. app' \in {app, "ready"}
      BY <1>6, <1>2 DEF PageTask, Connection, WaitConfirmConnected, InviterAccepts, PageConnected
    <2>2. GuideStep
      BY <1>6 DEF PageTask, Connection, WaitConfirmConnected, InviterAccepts, PageConnected,
                  GuideStep
    <2>3. CASE Disconnected
      <3>1. sockets # 0
        BY <2>3 DEF Disconnected
      <3> QED BY <2>1, <2>2, <3>1
    <2>4. CASE ~Disconnected
      <3>1. tasks # EmptyBag
        BY <1>6, <2>4, <1>1
           DEF PageTask, Connection, WaitConfirmConnected, InviterAccepts, PageConnected,
               SignUpCalls, QrDrawn, NotConnected, Rejected, Connected, Accepted
      <3> QED BY <2>1, <2>2, <3>1
    <2> QED BY <2>3, <2>4
  <1>7. CASE UNCHANGED vars
    BY <1>7 DEF vars
  <1>8. CASE \E k \in Keys : KeyTask(k)
    BY <1>5, <1>8
  <1>9. CASE (Receives \/ Page) /\ UNCHANGED <<guideVars, app>>
    BY <1>9
  <1> QED BY <1>3, <1>4, <1>6, <1>7, <1>8, <1>9 DEF Next

LEMMA AppGuideNext == AppGuideInv /\ [Next]_vars => AppGuideInv'
  <1> SUFFICES ASSUME AppGuideInv, [Next]_vars PROVE AppGuideInv'
    OBVIOUS
  <1>1. CASE Loaded
    BY <1>1, LoadedGuide
  <1>2. CASE /\ GuideStep /\ app' \in {app, "ready"}
             /\ app = "startup" \/ tasks # EmptyBag \/ registered # {} \/ sockets # 0
    <2>1. app' # "loading"
      BY <1>2 DEF AppGuideInv, Fresh, GuideInv, GuideTypeOK
    <2> QED BY <1>2, <2>1, GuideStepKeeps DEF AppGuideInv
  <1>3. CASE UNCHANGED <<guideVars, app>>
    <2>1. GuideInv'
      BY <1>3, GuideStutter DEF AppGuideInv
    <2> QED BY <1>3, <2>1 DEF AppGuideInv, Fresh, guideVars, guide, tmcs, server, link
  <1> QED BY <1>1, <1>2, <1>3, AppSteps

LEMMA AppGuideAlways == Spec => []AppGuideInv
  BY AppGuideInit, AppGuideNext, PTL DEF Spec

\* The guide never leaves its user without a button that works or a task that will
\* enable one, unless the last page has failed: Guide.next and back disable both
\* buttons, and whatever task is awaited then enables one again, also when tasks
\* have overlapped, when a task has failed, and when the connection is lost meanwhile.
THEOREM AlwaysAWayOn == Spec => []NotTrapped
  <1>1. AppGuideInv => NotTrapped
    <2> SUFFICES ASSUME GuideInv PROVE NotTrapped
      BY DEF AppGuideInv
    <2>1. \A t \in BagToSet(tasks) :
            t.kind \in {"sleep", "register", "ask", "connect"} => t.kind \notin Aside
      BY DEF Aside
    <2> QED BY <2>1 DEF GuideInv, WayOn, NotTrapped
  <1> QED BY <1>1, AppGuideAlways, PTL

-----------------------------------------------------------------------------
(* The page: types.                                                        *)

Owners == 0..MaxKeys
Sessions ==
    [with : Peers, owner : Owners, messages : Seq(Numbers),
     onMessage : [listener : {None, "ChatSession"}, eventqueue : Seq(Numbers)]]
Messages ==
    [from : Owners, state : MsgState, body : BOOLEAN,
     onStateChange : [listener : {None} \cup (NoCard..MaxMessages), eventqueue : Seq(MsgState)]]
CardSet == [mounted : Numbers, message : Numbers, state : MsgState]
Views ==
    [sessions : Seq(Sessions), messages : Seq(Messages), decrypting : SUBSET Numbers,
     onNewSession : [listener : {None, "page"}, eventqueue : Seq(Nat)],
     onContactRequest : [listener : {None, "page"}, eventqueue : Seq(Requests)],
     page : {"hidden", "mounted", "crashed"}, shown : Nat, active : Nat,
     requests : Seq(Requests), missed : SUBSET Requests, self : BOOLEAN, cards : Seq(CardSet)]

\* The indices in a view lead somewhere.
InRange(v) ==
    /\ v.shown \in 0..Len(v.sessions) /\ v.active \in 0..v.shown
    /\ Len(v.messages) \in 0..MaxMessages
    /\ \A i \in 1..Len(v.sessions) :
         /\ Len(v.sessions[i].messages) <= Len(v.messages)
         /\ \A j \in 1..Len(v.sessions[i].messages) :
              v.sessions[i].messages[j] \in 1..Len(v.messages)
         /\ \A j \in 1..Len(v.sessions[i].onMessage.eventqueue) :
              v.sessions[i].onMessage.eventqueue[j] \in 1..Len(v.messages)
    /\ v.decrypting \subseteq 1..Len(v.messages)
    /\ \A j \in 1..Len(v.onNewSession.eventqueue) :
         v.onNewSession.eventqueue[j] \in 1..Len(v.sessions)
    /\ \A j \in 1..Len(v.cards) :
         v.cards[j].mounted \in 1..Len(v.messages) /\ v.cards[j].message \in 1..Len(v.messages)

ViewOK(v) == v \in Views /\ InRange(v)

LEMMA Triggers ==
  /\ \A t, l : E!On(t, l) = [listener |-> l, eventqueue |-> << >>]
  /\ \A t : E!DispatchedOn(t) = t.eventqueue
  /\ \A t, e : E!Trigger(t, e) =
       IF t.listener = None THEN [t EXCEPT !.eventqueue = Append(@, e)] ELSE t
  /\ \A t, e : E!Dispatched(t, e) = IF t.listener = None THEN << >> ELSE <<e>>
  /\ E!NewTrigger = [listener |-> None, eventqueue |-> << >>]
  BY DEF E!On, E!DispatchedOn, E!Trigger, E!Dispatched, E!NewTrigger

\* w is v after ChatSession has been rendered.
DrawnTo(v, w) ==
    LET a == v.active
        ms == v.sessions[a].messages
        q == v.sessions[a].onMessage.eventqueue
    IN  /\ w.page = v.page /\ w.shown = v.shown /\ w.active = a /\ w.self = v.self
        /\ w.requests = v.requests /\ w.missed = v.missed
        /\ w.onNewSession = v.onNewSession /\ w.onContactRequest = v.onContactRequest
        /\ Len(w.sessions) = Len(v.sessions)
        /\ \A i \in 1..Len(v.sessions) :
             /\ w.sessions[i].with = v.sessions[i].with
             /\ w.sessions[i].owner = v.sessions[i].owner
             /\ w.sessions[i].messages = v.sessions[i].messages
             /\ i # a => w.sessions[i].onMessage = v.sessions[i].onMessage
        /\ w.sessions[a].onMessage = [listener |-> "ChatSession", eventqueue |-> << >>]
        /\ Len(w.messages) = Len(v.messages)
        /\ \A m \in 1..Len(v.messages) :
             /\ w.messages[m].from = v.messages[m].from
             /\ w.messages[m].state = v.messages[m].state
             /\ w.messages[m].body = v.messages[m].body
             /\ w.messages[m].onStateChange = Listener(v, ms, m)
        /\ w.decrypting = v.decrypting \cup Decrypts(v, q)
        /\ Len(w.cards) = Len(ms)
        /\ \A j \in 1..Len(ms) :
             w.cards[j] = IF j <= Len(v.cards) THEN [v.cards[j] EXCEPT !.message = ms[j]]
                          ELSE Card(v, ms[j])

LEMMA ViewParts ==
  ASSUME NEW v, ViewOK(v)
  PROVE  /\ v.sessions \in Seq(Sessions) /\ Len(v.sessions) \in Nat
         /\ v.messages \in Seq(Messages) /\ Len(v.messages) \in Nat
         /\ v.cards \in Seq(CardSet) /\ Len(v.cards) \in Nat
         /\ v.requests \in Seq(Requests) /\ Len(v.requests) \in Nat
         /\ v.active \in Nat /\ v.shown \in Nat
         /\ DOMAIN v.sessions = 1..Len(v.sessions) /\ DOMAIN v.messages = 1..Len(v.messages)
         /\ DOMAIN v.cards = 1..Len(v.cards) /\ DOMAIN v.requests = 1..Len(v.requests)
         /\ \A i \in 1..Len(v.sessions) :
              /\ v.sessions[i] \in Sessions
              /\ v.sessions[i].messages \in Seq(Numbers)
              /\ Len(v.sessions[i].messages) \in Nat
              /\ DOMAIN v.sessions[i].messages = 1..Len(v.sessions[i].messages)
              /\ v.sessions[i].onMessage.eventqueue \in Seq(Numbers)
              /\ Len(v.sessions[i].onMessage.eventqueue) \in Nat
              /\ DOMAIN v.sessions[i].onMessage.eventqueue =
                   1..Len(v.sessions[i].onMessage.eventqueue)
         /\ \A m \in 1..Len(v.messages) : v.messages[m] \in Messages
         /\ \A j \in 1..Len(v.cards) : v.cards[j] \in CardSet
         /\ v.active # 0 => v.active \in 1..Len(v.sessions)
  <1>1. /\ v.sessions \in Seq(Sessions) /\ v.messages \in Seq(Messages)
        /\ v.cards \in Seq(CardSet) /\ v.requests \in Seq(Requests)
        /\ v.active \in Nat /\ v.shown \in Nat
    BY DEF ViewOK, Views
  <1>2. \A i \in 1..Len(v.sessions) : v.sessions[i] \in Sessions
    BY <1>1
  <1>3. \A m \in 1..Len(v.messages) : v.messages[m] \in Messages
    BY <1>1
  <1>4. \A j \in 1..Len(v.cards) : v.cards[j] \in CardSet
    BY <1>1
  <1>5. \A i \in 1..Len(v.sessions) :
              /\ v.sessions[i].messages \in Seq(Numbers)
              /\ v.sessions[i].onMessage.eventqueue \in Seq(Numbers)
    BY <1>2 DEF Sessions
  <1>6. v.active # 0 => v.active \in 1..Len(v.sessions)
    BY <1>1 DEF ViewOK, InRange
  <1>7. \A S, s : s \in Seq(S) => Len(s) \in Nat /\ DOMAIN s = 1..Len(s)
    OBVIOUS
  <1>8. /\ Len(v.sessions) \in Nat /\ DOMAIN v.sessions = 1..Len(v.sessions)
        /\ Len(v.messages) \in Nat /\ DOMAIN v.messages = 1..Len(v.messages)
        /\ Len(v.cards) \in Nat /\ DOMAIN v.cards = 1..Len(v.cards)
        /\ Len(v.requests) \in Nat /\ DOMAIN v.requests = 1..Len(v.requests)
    BY <1>1, <1>7
  <1>9. \A i \in 1..Len(v.sessions) :
          /\ Len(v.sessions[i].messages) \in Nat
          /\ DOMAIN v.sessions[i].messages = 1..Len(v.sessions[i].messages)
          /\ Len(v.sessions[i].onMessage.eventqueue) \in Nat
          /\ DOMAIN v.sessions[i].onMessage.eventqueue =
                1..Len(v.sessions[i].onMessage.eventqueue)
    BY <1>5, <1>7
  <1> QED BY <1>1, <1>2, <1>3, <1>4, <1>5, <1>6, <1>8, <1>9

\* Who listens to message m after rendering.
LEMMA ListenerCases ==
  ASSUME NEW v, ViewOK(v), NEW ms \in Seq(Numbers), Len(ms) <= MaxMessages,
         NEW m \in 1..Len(v.messages)
  PROVE  LET t == v.messages[m].onStateChange
             l == Listener(v, ms, m)
             new(j) == j > Len(v.cards) /\ ms[j] = m /\ Own(v, m) /\ v.self
         IN  /\ l \in [listener : {None} \cup (NoCard..MaxMessages), eventqueue : Seq(MsgState)]
             /\ \/ \E j \in 1..Len(ms) : new(j) /\ l.listener = j
                \/ /\ \A j \in 1..Len(ms) : ~new(j)
                   /\ t.listener # None /\ t.listener \notin 1..Len(ms) /\ l.listener = NoCard
                \/ /\ \A j \in 1..Len(ms) : ~new(j)
                   /\ t.listener = None \/ t.listener \in 1..Len(ms)
                   /\ l = t
  <1> DEFINE t == v.messages[m].onStateChange
             l == Listener(v, ms, m)
             new == {j \in DOMAIN ms \ DOMAIN v.cards : ms[j] = m /\ Own(v, m) /\ v.self}
             type == [listener : {None} \cup (NoCard..MaxMessages), eventqueue : Seq(MsgState)]
  <1>1. l = IF new # {} THEN E!On(t, CHOOSE j \in new : TRUE)
            ELSE IF t.listener # None /\ t.listener \notin DOMAIN ms
            THEN [t EXCEPT !.listener = NoCard] ELSE t
    BY DEF Listener
  <1>2. /\ DOMAIN ms = 1..Len(ms) /\ DOMAIN v.cards = 1..Len(v.cards) /\ Len(v.cards) \in Nat
        /\ Len(ms) \in Nat
    BY ViewParts
  <1>3. t \in type
    BY ViewParts DEF Messages
  <1>4. \A j \in 1..Len(ms) :
          j \in new <=> j > Len(v.cards) /\ ms[j] = m /\ Own(v, m) /\ v.self
    BY <1>2
  <1>5. MaxMessages \in Nat /\ NoCard = 0
    BY BoundsAssumption DEF NoCard
  <1> HIDE DEF t, l
  <1>6. CASE new # {}
    <2>1. PICK j \in new : j = CHOOSE i \in new : TRUE
      BY <1>6
    <2>2. l = [listener |-> j, eventqueue |-> << >>]
      BY <1>1, <1>6, <2>1, Triggers
    <2>3. j \in 1..Len(ms) /\ j \in NoCard..MaxMessages
      BY <1>2, <1>5, <2>1
    <2>4. l \in type /\ l.listener = j
      BY <2>2, <2>3
    <2> QED BY <1>4, <2>1, <2>3, <2>4 DEF l, t
  <1>7. CASE new = {} /\ t.listener # None /\ t.listener \notin DOMAIN ms
    <2>1. l = [t EXCEPT !.listener = NoCard]
      BY <1>1, <1>7
    <2>2. l \in type /\ l.listener = NoCard
      BY <2>1, <1>3, <1>5
    <2> QED BY <1>2, <1>4, <1>7, <2>2 DEF l, t
  <1>8. CASE new = {} /\ ~(t.listener # None /\ t.listener \notin DOMAIN ms)
    <2>1. l = t
      BY <1>1, <1>8
    <2> QED BY <1>2, <1>3, <1>4, <1>8, <2>1 DEF l, t
  <1> QED BY <1>6, <1>7, <1>8

\* What rendering ChatSession does to a view.
LEMMA DrawnEffect ==
  ASSUME NEW v, ViewOK(v), Mounted(v), v.active # 0
  PROVE  LET s == v.sessions[v.active]
         IN  IF \E j \in 1..Len(s.messages) : v.messages[s.messages[j]].from \notin {0, s.owner}
             THEN Drawn(v) = [v EXCEPT !.page = "crashed", !.cards = << >>]
             ELSE DrawnTo(v, Drawn(v)) /\ ViewOK(Drawn(v))
  <1> DEFINE a == v.active
             s == v.sessions[a]
             ms == s.messages
             crash == \E j \in DOMAIN ms : v.messages[ms[j]].from \notin {0, s.owner}
             w == [v EXCEPT
                    !.cards = Cards(v, ms),
                    !.messages = [m \in DOMAIN v.messages |->
                        [v.messages[m] EXCEPT !.onStateChange = Listener(v, ms, m)]],
                    !.sessions[v.active].onMessage = E!On(@, "ChatSession"),
                    !.decrypting = @ \cup Decrypts(v, E!DispatchedOn(s.onMessage))]
  <1>1. Drawn(v) = IF crash THEN [v EXCEPT !.page = "crashed", !.cards = << >>] ELSE w
    BY DEF Drawn
  <1>2. a \in 1..Len(v.sessions) /\ DOMAIN v.sessions = 1..Len(v.sessions)
        /\ DOMAIN ms = 1..Len(ms) /\ Len(ms) \in Nat
        /\ DOMAIN v.messages = 1..Len(v.messages) /\ Len(v.messages) \in Nat
        /\ DOMAIN v.cards = 1..Len(v.cards) /\ Len(v.sessions) \in Nat /\ Len(v.cards) \in Nat
    BY ViewParts
  <1>3. v \in Views
    BY DEF ViewOK
  <1>4. ASSUME ~crash PROVE DrawnTo(v, w)
    <2>1. /\ w.page = v.page /\ w.shown = v.shown /\ w.active = a /\ w.self = v.self
          /\ w.requests = v.requests /\ w.missed = v.missed
          /\ w.onNewSession = v.onNewSession /\ w.onContactRequest = v.onContactRequest
          /\ w.cards = Cards(v, ms)
          /\ w.messages = [m \in DOMAIN v.messages |->
                        [v.messages[m] EXCEPT !.onStateChange = Listener(v, ms, m)]]
          /\ w.sessions = [v.sessions EXCEPT ![a].onMessage = E!On(@, "ChatSession")]
          /\ w.decrypting = v.decrypting \cup Decrypts(v, E!DispatchedOn(s.onMessage))
      BY <1>3 DEF Views
    <2> HIDE DEF w
    <2>2. w.decrypting = v.decrypting \cup Decrypts(v, s.onMessage.eventqueue)
      BY <2>1, Triggers
    <2>3. /\ Len(w.messages) = Len(v.messages)
          /\ \A m \in 1..Len(v.messages) :
             /\ w.messages[m].from = v.messages[m].from
             /\ w.messages[m].state = v.messages[m].state
             /\ w.messages[m].body = v.messages[m].body
             /\ w.messages[m].onStateChange = Listener(v, ms, m)
      <3>1. \A m \in 1..Len(v.messages) : v.messages[m] \in Messages
        BY ViewParts
      <3> QED BY <2>1, <1>2, <3>1 DEF Messages
    <2>4. /\ Len(w.cards) = Len(ms)
          /\ \A j \in 1..Len(ms) :
             w.cards[j] = IF j <= Len(v.cards) THEN [v.cards[j] EXCEPT !.message = ms[j]]
                          ELSE Card(v, ms[j])
      <3>1. Cards(v, ms) = [j \in 1..Len(ms) |->
              IF j \in 1..Len(v.cards) THEN [v.cards[j] EXCEPT !.message = ms[j]]
              ELSE Card(v, ms[j])]
        BY <1>2 DEF Cards
      <3>2. w.cards = Cards(v, ms)
        BY <2>1
      <3> DEFINE f(j) == IF j \in 1..Len(v.cards) THEN [v.cards[j] EXCEPT !.message = ms[j]]
                         ELSE Card(v, ms[j])
      <3>3. Len(w.cards) = Len(ms) /\ \A j \in 1..Len(ms) : w.cards[j] = f(j)
        <4>1. w.cards = [j \in 1..Len(ms) |-> f(j)]
          BY <3>1, <3>2
        <4> HIDE DEF f, ms
        <4> QED BY <4>1, <1>2
      <3>4. \A j \in 1..Len(ms) : j \in 1..Len(v.cards) <=> j <= Len(v.cards)
        BY <1>2
      <3> QED BY <3>3, <3>4
    <2>5. /\ Len(w.sessions) = Len(v.sessions)
          /\ \A i \in 1..Len(v.sessions) :
             /\ w.sessions[i].with = v.sessions[i].with
             /\ w.sessions[i].owner = v.sessions[i].owner
             /\ w.sessions[i].messages = v.sessions[i].messages
             /\ i # a => w.sessions[i].onMessage = v.sessions[i].onMessage
          /\ w.sessions[a].onMessage = [listener |-> "ChatSession", eventqueue |-> << >>]
      <3>1. \A i \in 1..Len(v.sessions) : v.sessions[i] \in Sessions
        BY ViewParts
      <3>2. E!On(v.sessions[a].onMessage, "ChatSession") =
              [listener |-> "ChatSession", eventqueue |-> << >>]
        BY Triggers
      <3> QED BY <2>1, <1>2, <3>1, <3>2 DEF Sessions
    <2> QED BY <2>1, <2>2, <2>3, <2>4, <2>5 DEF DrawnTo
  <1>5. ASSUME DrawnTo(v, w) PROVE ViewOK(w)
    <2>1. ms \in Seq(Numbers) /\ Len(ms) <= MaxMessages /\ Len(ms) <= Len(v.messages)
      <3>1. ms \in Seq(Numbers)
        BY <1>2, ViewParts
      <3>2. Len(ms) <= Len(v.messages) /\ Len(v.messages) <= MaxMessages
        BY <1>2, BoundsAssumption DEF ViewOK, InRange
      <3> QED BY <1>2, <3>1, <3>2, BoundsAssumption
    <2>2. Cards(v, ms) \in Seq(CardSet)
      <3>1. \A j \in 1..Len(ms) : ms[j] \in Numbers /\ ms[j] \in 1..Len(v.messages)
        BY <1>2, <2>1 DEF ViewOK, InRange
      <3>2. \A j \in 1..Len(ms) : j \in DOMAIN v.cards =>
              [v.cards[j] EXCEPT !.message = ms[j]] \in CardSet
        <4>1. \A c \in CardSet, n \in Numbers : [c EXCEPT !.message = n] \in CardSet
          BY DEF CardSet
        <4>2. \A j \in DOMAIN v.cards : v.cards[j] \in CardSet
          BY ViewParts
        <4> QED BY <3>1, <4>1, <4>2
      <3>3. \A j \in 1..Len(ms) : Card(v, ms[j]) \in CardSet
        BY <3>1, <1>2, ViewParts DEF Card, CardSet, Messages
      <3> QED BY <1>2, <3>2, <3>3 DEF Cards
    <2>3. [m \in DOMAIN v.messages |->
             [v.messages[m] EXCEPT !.onStateChange = Listener(v, ms, m)]] \in Seq(Messages)
      <3>1. \A m \in 1..Len(v.messages) :
              [v.messages[m] EXCEPT !.onStateChange = Listener(v, ms, m)] \in Messages
        <4> SUFFICES ASSUME NEW m \in 1..Len(v.messages)
                     PROVE  [v.messages[m] EXCEPT !.onStateChange = Listener(v, ms, m)]
                              \in Messages
          OBVIOUS
        <4>1. v.messages[m] \in Messages
          BY ViewParts
        <4>2. Listener(v, ms, m) \in
                [listener : {None} \cup (NoCard..MaxMessages), eventqueue : Seq(MsgState)]
          BY <2>1, ListenerCases
        <4> QED BY <4>1, <4>2 DEF Messages
      <3> QED BY <1>2, <3>1
    <2>4. [v.sessions EXCEPT ![v.active].onMessage = E!On(@, "ChatSession")] \in Seq(Sessions)
      <3>1. E!On(v.sessions[v.active].onMessage, "ChatSession")
              \in [listener : {None, "ChatSession"}, eventqueue : Seq(Numbers)]
        <4>1. << >> \in Seq(Numbers)
          OBVIOUS
        <4> QED BY <4>1, Triggers
      <3>2. \A i \in 1..Len(v.sessions) : v.sessions[i] \in Sessions
        BY ViewParts
      <3> DEFINE x == [v.sessions[v.active] EXCEPT !.onMessage = E!On(@, "ChatSession")]
      <3>3. x \in Sessions
        BY <3>1, <3>2, <1>2 DEF Sessions
      <3>4. [v.sessions EXCEPT ![v.active].onMessage = E!On(@, "ChatSession")]
              = [v.sessions EXCEPT ![v.active] = x]
        OBVIOUS
      <3> HIDE DEF x
      <3>5. [v.sessions EXCEPT ![v.active] = x] \in Seq(Sessions)
        BY <3>3, <1>2, ViewParts
      <3> QED BY <3>4, <3>5
    <2>5. Decrypts(v, E!DispatchedOn(s.onMessage)) \subseteq 1..Len(v.messages)
      <3>1. s.onMessage.eventqueue \in Seq(Numbers)
            /\ \A j \in 1..Len(s.onMessage.eventqueue) :
                 s.onMessage.eventqueue[j] \in 1..Len(v.messages)
        BY <1>2, ViewParts DEF ViewOK, InRange
      <3> QED BY SMTT(30), <3>1, Triggers DEF Decrypts, Range
    <2>6. v.decrypting \cup Decrypts(v, E!DispatchedOn(s.onMessage)) \subseteq Numbers
      BY <2>5, <1>3, <1>2, BoundsAssumption DEF Views, Numbers, ViewOK, InRange
    <2>7. w \in Views
      BY <1>3, <2>2, <2>3, <2>4, <2>6 DEF Views
    <2> HIDE DEF w
    <2>8. InRange(w)
      <3>1. /\ w.shown \in 0..Len(w.sessions) /\ w.active \in 0..w.shown
            /\ Len(w.messages) \in 0..MaxMessages
            /\ \A j \in 1..Len(w.onNewSession.eventqueue) :
                 w.onNewSession.eventqueue[j] \in 1..Len(w.sessions)
        BY <1>5 DEF DrawnTo, ViewOK, InRange
      <3>2. w.decrypting \subseteq 1..Len(w.messages)
        BY <1>5, <2>5, Triggers DEF DrawnTo, ViewOK, InRange
      <3>3. \A i \in 1..Len(w.sessions) :
              /\ Len(w.sessions[i].messages) <= Len(w.messages)
              /\ \A j \in 1..Len(w.sessions[i].messages) :
                   w.sessions[i].messages[j] \in 1..Len(w.messages)
              /\ \A j \in 1..Len(w.sessions[i].onMessage.eventqueue) :
                   w.sessions[i].onMessage.eventqueue[j] \in 1..Len(w.messages)
        <4> SUFFICES ASSUME NEW i \in 1..Len(v.sessions)
                     PROVE  /\ Len(w.sessions[i].messages) <= Len(v.messages)
                            /\ \A j \in 1..Len(w.sessions[i].messages) :
                                 w.sessions[i].messages[j] \in 1..Len(v.messages)
                            /\ \A j \in 1..Len(w.sessions[i].onMessage.eventqueue) :
                                 w.sessions[i].onMessage.eventqueue[j] \in 1..Len(v.messages)
          BY <1>5 DEF DrawnTo
        <4>1. w.sessions[i].messages = v.sessions[i].messages
          BY <1>5 DEF DrawnTo
        <4>2. \/ w.sessions[i].onMessage = v.sessions[i].onMessage
              \/ w.sessions[i].onMessage.eventqueue = << >>
          BY <1>5 DEF DrawnTo
        <4>3. /\ Len(v.sessions[i].messages) <= Len(v.messages)
              /\ \A j \in 1..Len(v.sessions[i].messages) :
                   v.sessions[i].messages[j] \in 1..Len(v.messages)
              /\ \A j \in 1..Len(v.sessions[i].onMessage.eventqueue) :
                   v.sessions[i].onMessage.eventqueue[j] \in 1..Len(v.messages)
          BY DEF ViewOK, InRange
        <4>4. CASE w.sessions[i].onMessage = v.sessions[i].onMessage
          BY <4>1, <4>3, <4>4
        <4>5. CASE w.sessions[i].onMessage.eventqueue = << >>
          <5>1. 1..Len(<< >>) = {}
            OBVIOUS
          <5> QED BY <4>1, <4>3, <4>5, <5>1
        <4> QED BY <4>2, <4>4, <4>5
      <3>4. \A j \in 1..Len(w.cards) :
              w.cards[j].mounted \in 1..Len(w.messages) /\ w.cards[j].message \in 1..Len(w.messages)
        <4> SUFFICES ASSUME NEW j \in 1..Len(ms)
                     PROVE  /\ w.cards[j].mounted \in 1..Len(v.messages)
                            /\ w.cards[j].message \in 1..Len(v.messages)
          BY <1>5 DEF DrawnTo
        <4>1. ms[j] \in 1..Len(v.messages)
          BY <1>2 DEF ViewOK, InRange
        <4>2. CASE j <= Len(v.cards)
          <5>1. w.cards[j] = [v.cards[j] EXCEPT !.message = ms[j]] /\ j \in 1..Len(v.cards)
            BY <1>2, <1>5, <4>2 DEF DrawnTo
          <5>2. v.cards[j] \in CardSet
            BY <5>1, ViewParts
          <5> QED BY <4>1, <5>1, <5>2 DEF CardSet, ViewOK, InRange
        <4>3. CASE ~(j <= Len(v.cards))
          <5>1. w.cards[j] = Card(v, ms[j])
            BY <1>5, <4>3 DEF DrawnTo
          <5> QED BY <4>1, <5>1 DEF Card
        <4> QED BY <4>2, <4>3
      <3> QED BY <3>1, <3>2, <3>3, <3>4 DEF InRange
    <2> QED BY <2>7, <2>8 DEF ViewOK
  <1> HIDE DEF w
  <1> QED BY <1>1, <1>2, <1>4, <1>5

-----------------------------------------------------------------------------
(* The page: what holds of it unless tasks have overlapped.                *)

At(v, i, j) == v.sessions[i].messages[j]
Places(v, i) == 1..Len(v.sessions[i].messages)

\* A message is in one place, and readable unless it has yet to be decrypted.
CalmSessions(v, me) ==
    \A i \in 1..Len(v.sessions) :
      /\ v.sessions[i].owner = me
      /\ v.sessions[i].onMessage.listener # None => v.sessions[i].onMessage.eventqueue = << >>
      /\ \A k \in 1..Len(v.sessions) : \A j \in Places(v, i), l \in Places(v, k) :
           At(v, i, j) = At(v, k, l) => i = k /\ j = l
      /\ \A j \in Places(v, i) :
           \/ v.messages[At(v, i, j)].body \/ At(v, i, j) \in v.decrypting
           \/ \E n \in 1..Len(v.sessions[i].onMessage.eventqueue) :
                v.sessions[i].onMessage.eventqueue[n] = At(v, i, j)

CalmMessages(v, me) ==
    \A m \in 1..Len(v.messages) :
      /\ v.messages[m].from \in {0, me}
      /\ v.messages[m].from = 0 => v.messages[m].state = "none"
      /\ v.messages[m].from # 0 => v.messages[m].body

\* A card has the state of the message it was mounted for, is at a place of that
\* message, and listens to it if it is the user's; whatever else listens to a
\* message is a card that is not there any more.
CalmCards(v) ==
    /\ \A j \in 1..Len(v.cards) :
         /\ v.cards[j].state = v.messages[v.cards[j].mounted].state
         /\ Own(v, v.cards[j].mounted) =>
              v.messages[v.cards[j].mounted].onStateChange.listener = j
         /\ \E i \in 1..Len(v.sessions) : j \in Places(v, i) /\ At(v, i, j) = v.cards[j].mounted
    /\ \A m \in 1..Len(v.messages) :
         LET l == v.messages[m].onStateChange.listener
         IN  l \in {None, NoCard} \/ (l \in 1..Len(v.cards) /\ v.cards[l].mounted = m)

Calm(v, me) ==
    CalmSessions(v, me) /\ CalmMessages(v, me) /\ CalmCards(v) /\ v.self = TRUE
    /\ v.page # "crashed"

\* The visible session is on the cards.
Shown(v) ==
    Mounted(v) /\ v.active # 0 =>
        /\ v.sessions[v.active].onMessage.listener = "ChatSession"
        /\ \A j \in Places(v, v.active) :
             \/ At(v, v.active, j) \in v.decrypting
             \/ j <= Len(v.cards) /\ v.cards[j].message = At(v, v.active, j)

\* What is in range of the messages.
LEMMA Within ==
  ASSUME NEW v, ViewOK(v)
  PROVE  /\ \A i \in 1..Len(v.sessions) :
              /\ Len(v.sessions[i].messages) <= MaxMessages
              /\ \A j \in Places(v, i) : At(v, i, j) \in 1..Len(v.messages)
              /\ \A n \in 1..Len(v.sessions[i].onMessage.eventqueue) :
                   v.sessions[i].onMessage.eventqueue[n] \in 1..Len(v.messages)
         /\ \A j \in 1..Len(v.cards) :
              /\ v.cards[j].mounted \in 1..Len(v.messages)
              /\ v.cards[j].message \in 1..Len(v.messages)
         /\ v.decrypting \subseteq 1..Len(v.messages)
         /\ \A m \in 1..Len(v.messages) : m \in Numbers
         /\ Len(v.messages) \in 0..MaxMessages
  <1>1. \A i \in 1..Len(v.sessions) :
              /\ Len(v.sessions[i].messages) <= Len(v.messages)
              /\ Len(v.sessions[i].messages) \in Nat
              /\ \A j \in Places(v, i) : At(v, i, j) \in 1..Len(v.messages)
              /\ \A n \in 1..Len(v.sessions[i].onMessage.eventqueue) :
                   v.sessions[i].onMessage.eventqueue[n] \in 1..Len(v.messages)
    BY ViewParts DEF ViewOK, InRange, Places, At
  <1>2. Len(v.messages) \in 0..MaxMessages
    BY DEF ViewOK, InRange
  <1>3. \A i \in 1..Len(v.sessions) : Len(v.sessions[i].messages) <= MaxMessages
    BY <1>1, <1>2, BoundsAssumption
  <1>4. \A m \in 1..Len(v.messages) : m \in Numbers
    BY <1>2, BoundsAssumption DEF Numbers
  <1>5. v.decrypting \subseteq 1..Len(v.messages)
        /\ \A j \in 1..Len(v.cards) :
              /\ v.cards[j].mounted \in 1..Len(v.messages)
              /\ v.cards[j].message \in 1..Len(v.messages)
    BY DEF ViewOK, InRange
  <1> QED BY <1>1, <1>2, <1>3, <1>4, <1>5

\* ChatSession is rendered.
LEMMA DrawnCalm ==
  ASSUME NEW v, ViewOK(v), NEW me, Calm(v, me), Mounted(v), v.active # 0
  PROVE  /\ DrawnTo(v, Drawn(v)) /\ ViewOK(Drawn(v))
         /\ Calm(Drawn(v), me) /\ Shown(Drawn(v))
  <1> DEFINE w == Drawn(v)
             a == v.active
             ms == v.sessions[a].messages
             q == v.sessions[a].onMessage.eventqueue
  <1>1. a \in 1..Len(v.sessions)
    BY ViewParts
  <1>2. DrawnTo(v, w) /\ ViewOK(w)
    <2>1. \A j \in 1..Len(ms) : v.messages[ms[j]].from \in {0, v.sessions[a].owner}
      BY <1>1, Within DEF Calm, CalmSessions, CalmMessages, Places, At
    <2> QED BY <2>1, DrawnEffect
  <1> HIDE DEF w
  <1>3. CalmSessions(w, me)
    <2> SUFFICES ASSUME NEW i \in 1..Len(v.sessions)
                 PROVE  /\ w.sessions[i].owner = me
                        /\ w.sessions[i].onMessage.listener # None =>
                             w.sessions[i].onMessage.eventqueue = << >>
                        /\ \A k \in 1..Len(v.sessions) : \A j \in Places(w, i), l \in Places(w, k) :
                             At(w, i, j) = At(w, k, l) => i = k /\ j = l
                        /\ \A j \in Places(w, i) :
                             \/ w.messages[At(w, i, j)].body \/ At(w, i, j) \in w.decrypting
                             \/ \E n \in 1..Len(w.sessions[i].onMessage.eventqueue) :
                                  w.sessions[i].onMessage.eventqueue[n] = At(w, i, j)
      BY <1>2 DEF CalmSessions, DrawnTo
    <2>1. \A k \in 1..Len(v.sessions) : w.sessions[k].messages = v.sessions[k].messages
      BY <1>2 DEF DrawnTo
    <2>2. w.sessions[i].owner = me
      BY <1>2 DEF DrawnTo, Calm, CalmSessions
    <2>3. w.sessions[i].onMessage.listener # None => w.sessions[i].onMessage.eventqueue = << >>
      <3>1. CASE i = a
        BY <3>1, <1>2 DEF DrawnTo
      <3>2. CASE i # a
        BY <3>2, <1>2 DEF DrawnTo, Calm, CalmSessions
      <3> QED BY <3>1, <3>2
    <2>4. \A k \in 1..Len(v.sessions) : \A j \in Places(w, i), l \in Places(w, k) :
                             At(w, i, j) = At(w, k, l) => i = k /\ j = l
      <3>1. ASSUME NEW k \in 1..Len(v.sessions), NEW j \in Places(w, i), NEW l \in Places(w, k),
                   At(w, i, j) = At(w, k, l)
            PROVE  i = k /\ j = l
        <4>1. j \in Places(v, i) /\ l \in Places(v, k) /\ At(v, i, j) = At(v, k, l)
          BY <2>1, <3>1 DEF Places, At
        <4> QED BY <4>1 DEF Calm, CalmSessions
      <3> QED BY <3>1
    <2>5. ASSUME NEW j \in Places(w, i)
          PROVE  \/ w.messages[At(w, i, j)].body \/ At(w, i, j) \in w.decrypting
                 \/ \E n \in 1..Len(w.sessions[i].onMessage.eventqueue) :
                      w.sessions[i].onMessage.eventqueue[n] = At(w, i, j)
      <3> DEFINE m == At(v, i, j)
      <3>1. At(w, i, j) = m /\ j \in Places(v, i)
        BY <2>1 DEF Places, At
      <3>2. m \in 1..Len(v.messages)
        BY <3>1, Within
      <3>3. w.messages[m].body = v.messages[m].body /\ v.decrypting \subseteq w.decrypting
        BY <1>2, <3>2 DEF DrawnTo
      <3>4. \/ v.messages[m].body \/ m \in v.decrypting
            \/ \E n \in 1..Len(v.sessions[i].onMessage.eventqueue) :
                      v.sessions[i].onMessage.eventqueue[n] = m
        BY <3>1 DEF Calm, CalmSessions
      <3> HIDE DEF m
      <3>5. ASSUME i = a, NEW n \in 1..Len(q), q[n] = m
            PROVE  v.messages[m].body \/ m \in w.decrypting
        <4>1. CASE Own(v, m)
          BY <4>1, <3>2 DEF Own, Calm, CalmMessages
        <4>2. CASE ~Own(v, m)
          <5>1. m \in Range(q)
            BY <3>5, <1>1, ViewParts DEF Range
          <5> QED BY <5>1, <4>2, <1>2 DEF DrawnTo, Decrypts
        <4> QED BY <4>1, <4>2
      <3>6. i # a => w.sessions[i].onMessage = v.sessions[i].onMessage
        BY <1>2 DEF DrawnTo
      <3> QED BY <3>1, <3>3, <3>4, <3>5, <3>6
    <2> QED BY <2>2, <2>3, <2>4, <2>5
  <1>4. CalmMessages(w, me)
    BY <1>2 DEF DrawnTo, Calm, CalmMessages
  <1>5. CalmCards(w)
    <2>1. ms \in Seq(Numbers) /\ Len(ms) \in Nat /\ Len(ms) <= MaxMessages
          /\ Len(v.cards) \in Nat
          /\ \A j \in 1..Len(ms) : ms[j] \in 1..Len(v.messages)
      BY <1>1, ViewParts, Within DEF Places, At
    <2>2. ASSUME NEW m \in 1..Len(v.messages)
          PROVE  LET t == v.messages[m].onStateChange
                     l == w.messages[m].onStateChange
                     new(j) == j > Len(v.cards) /\ ms[j] = m /\ Own(v, m)
                 IN  \/ \E j \in 1..Len(ms) : new(j) /\ l.listener = j
                     \/ /\ \A j \in 1..Len(ms) : ~new(j)
                        /\ t.listener # None /\ t.listener \notin 1..Len(ms) /\ l.listener = NoCard
                     \/ /\ \A j \in 1..Len(ms) : ~new(j)
                        /\ t.listener = None \/ t.listener \in 1..Len(ms)
                        /\ l = t
      <3>1. w.messages[m].onStateChange = Listener(v, ms, m) /\ v.self
        BY <1>2 DEF DrawnTo, Calm
      <3>2. LET t == v.messages[m].onStateChange
                l == Listener(v, ms, m)
                new(j) == j > Len(v.cards) /\ ms[j] = m /\ Own(v, m) /\ v.self
            IN  \/ \E j \in 1..Len(ms) : new(j) /\ l.listener = j
                \/ /\ \A j \in 1..Len(ms) : ~new(j)
                   /\ t.listener # None /\ t.listener \notin 1..Len(ms) /\ l.listener = NoCard
                \/ /\ \A j \in 1..Len(ms) : ~new(j)
                   /\ t.listener = None \/ t.listener \in 1..Len(ms)
                   /\ l = t
        BY <2>1, ListenerCases
      <3> QED BY <3>1, <3>2
    <2>3. ASSUME NEW j \in 1..Len(ms)
          PROVE  /\ w.cards[j].mounted = (IF j <= Len(v.cards) THEN v.cards[j].mounted ELSE ms[j])
                 /\ w.cards[j].state = (IF j <= Len(v.cards) THEN v.cards[j].state
                                        ELSE v.messages[ms[j]].state)
      <3>1. w.cards[j] = IF j <= Len(v.cards) THEN [v.cards[j] EXCEPT !.message = ms[j]]
                          ELSE Card(v, ms[j])
        BY <1>2 DEF DrawnTo
      <3>2. CASE j <= Len(v.cards)
        <4>1. v.cards[j] \in CardSet
          BY <3>2, <2>1, ViewParts
        <4> QED BY <4>1, <3>1, <3>2 DEF CardSet
      <3>3. CASE ~(j <= Len(v.cards))
        BY <3>1, <3>3 DEF Card
      <3> QED BY <3>2, <3>3
    <2>4. \A m \in 1..Len(v.messages) :
            w.messages[m].state = v.messages[m].state /\ w.messages[m].from = v.messages[m].from
      BY <1>2 DEF DrawnTo
    <2>5. \A i \in 1..Len(v.sessions) : \A j : j \in Places(w, i) <=> j \in Places(v, i)
      BY <1>2 DEF DrawnTo, Places
    <2>6. \A i \in 1..Len(v.sessions) : \A j : At(w, i, j) = At(v, i, j)
      BY <1>2 DEF DrawnTo, At
    <2>7. Len(w.cards) = Len(ms) /\ Len(w.messages) = Len(v.messages)
          /\ Len(w.sessions) = Len(v.sessions)
      BY <1>2 DEF DrawnTo
    <2>8. \A j \in Places(v, a) : At(v, a, j) = ms[j]
      BY DEF At
    <2>9. Places(v, a) = 1..Len(ms)
      BY DEF Places
    <2> HIDE DEF ms
    <2>10. ASSUME NEW j \in 1..Len(ms)
           PROVE  /\ w.cards[j].state = w.messages[w.cards[j].mounted].state
                  /\ Own(w, w.cards[j].mounted) =>
                       w.messages[w.cards[j].mounted].onStateChange.listener = j
                  /\ \E i \in 1..Len(v.sessions) :
                       j \in Places(v, i) /\ At(v, i, j) = w.cards[j].mounted
      <3>1. CASE j <= Len(v.cards)
        <4>1. PICK m \in 1..Len(v.messages) : m = v.cards[j].mounted
          BY <3>1, <2>1, Within
        <4>2. /\ v.cards[j].state = v.messages[m].state
              /\ Own(v, m) => v.messages[m].onStateChange.listener = j
              /\ \E i \in 1..Len(v.sessions) : j \in Places(v, i) /\ At(v, i, j) = m
          BY <4>1, <3>1, <2>1 DEF Calm, CalmCards
        <4>3. w.cards[j].mounted = m /\ w.cards[j].state = v.cards[j].state
          BY <2>3, <3>1, <4>1
        <4>4. ASSUME Own(v, m) PROVE w.messages[m].onStateChange.listener = j
          <5>1. \A k \in 1..Len(ms) : k > Len(v.cards) => ms[k] # m
            <6> SUFFICES ASSUME NEW k \in 1..Len(ms), k > Len(v.cards), ms[k] = m
                         PROVE  FALSE
              OBVIOUS
            <6>1. PICK i \in 1..Len(v.sessions) : j \in Places(v, i) /\ At(v, i, j) = m
              BY <4>2
            <6>2. At(v, a, k) = m /\ k \in Places(v, a)
              BY <2>8, <2>9
            <6>3. j = k
              BY <6>1, <6>2, <1>1 DEF Calm, CalmSessions
            <6> QED BY <6>3, <3>1, <2>1
          <5>2. v.messages[m].onStateChange.listener = j /\ j # None
            BY <4>2, <4>4, <2>1, NoneAssumption, BoundsAssumption
          <5> QED BY <5>1, <5>2, <2>2
        <4>5. Own(w, m) <=> Own(v, m)
          BY <2>4 DEF Own
        <4> QED BY <4>2, <4>3, <4>4, <4>5, <2>4
      <3>2. CASE ~(j <= Len(v.cards))
        <4>1. PICK m \in 1..Len(v.messages) : m = ms[j]
          BY <2>1
        <4>2. w.cards[j].mounted = m /\ w.cards[j].state = v.messages[m].state
          BY <2>3, <3>2, <4>1
        <4>3. j \in Places(v, a) /\ At(v, a, j) = m
          BY <4>1, <2>8, <2>9
        <4>4. ASSUME Own(v, m) PROVE w.messages[m].onStateChange.listener = j
          <5>1. PICK k \in 1..Len(ms) : ms[k] = m /\ w.messages[m].onStateChange.listener = k
            <6>1. j > Len(v.cards)
              BY <3>2, <2>1
            <6> QED BY <6>1, <4>1, <4>4, <2>2
          <5>2. k \in Places(v, a) /\ At(v, a, k) = m
            BY <5>1, <2>8, <2>9
          <5>3. k = j
            BY <4>3, <5>2, <1>1 DEF Calm, CalmSessions
          <5> QED BY <5>1, <5>3
        <4>5. Own(w, m) <=> Own(v, m)
          BY <2>4 DEF Own
        <4> QED BY <4>2, <4>3, <4>4, <4>5, <2>4, <1>1
      <3> QED BY <3>1, <3>2
    <2>11. ASSUME NEW m \in 1..Len(v.messages)
           PROVE  LET l == w.messages[m].onStateChange.listener
                  IN  l \in {None, NoCard} \/ (l \in 1..Len(ms) /\ w.cards[l].mounted = m)
      <3> DEFINE l == w.messages[m].onStateChange.listener
                 t == v.messages[m].onStateChange.listener
      <3>1. \/ \E j \in 1..Len(ms) : j > Len(v.cards) /\ ms[j] = m /\ l = j
            \/ l = NoCard
            \/ (t = None \/ t \in 1..Len(ms)) /\ l = t
        BY <2>2
      <3>2. t \in {None, NoCard} \/ (t \in 1..Len(v.cards) /\ v.cards[t].mounted = m)
        BY DEF Calm, CalmCards
      <3> HIDE DEF l, t
      <3>3. ASSUME NEW j \in 1..Len(ms), j > Len(v.cards), ms[j] = m, l = j
            PROVE  w.cards[l].mounted = m
        BY SMTT(30), <3>3, <2>1, <2>3
      <3>4. ASSUME t \in 1..Len(v.cards), t \in 1..Len(ms), v.cards[t].mounted = m, l = t
            PROVE  w.cards[l].mounted = m
        BY <3>4, <2>1, <2>3
      <3>5. l \in {None, NoCard} \/ (l \in 1..Len(ms) /\ w.cards[l].mounted = m)
        BY <3>1, <3>2, <3>3, <3>4
      <3> QED BY <3>5 DEF l
    <2> QED BY SMTT(30), <2>5, <2>6, <2>7, <2>10, <2>11 DEF CalmCards
  <1>6. Shown(w)
    <2>1. w.active = a /\ w.sessions[a].onMessage.listener = "ChatSession"
          /\ w.sessions[a].messages = ms /\ Len(w.cards) = Len(ms)
      BY <1>1, <1>2 DEF DrawnTo
    <2>2. ASSUME NEW j \in 1..Len(ms)
          PROVE  j <= Len(w.cards) /\ w.cards[j].message = ms[j]
      <3>1. w.cards[j] = IF j <= Len(v.cards) THEN [v.cards[j] EXCEPT !.message = ms[j]]
                          ELSE Card(v, ms[j])
        BY <1>2 DEF DrawnTo
      <3>2. Len(ms) \in Nat /\ Len(v.cards) \in Nat
        BY <1>1, ViewParts
      <3>3. CASE j <= Len(v.cards)
        <4>1. v.cards[j] \in CardSet
          BY <3>2, <3>3, ViewParts
        <4> QED BY <4>1, <3>1, <3>2, <3>3, <2>1 DEF CardSet
      <3>4. CASE ~(j <= Len(v.cards))
        BY <3>1, <3>2, <3>4, <2>1 DEF Card
      <3> QED BY <3>3, <3>4
    <2> QED BY <2>1, <2>2 DEF Shown, Places, At
  <1>7. w.self = TRUE /\ w.page # "crashed"
    BY <1>2 DEF DrawnTo, Calm
  <1> QED BY <1>2, <1>3, <1>4, <1>5, <1>6, <1>7 DEF Calm, w

\* What rendering leaves as it is.
Kept(v, w) ==
    /\ w.requests = v.requests /\ w.missed = v.missed
    /\ w.onNewSession = v.onNewSession /\ w.onContactRequest = v.onContactRequest
    /\ Len(w.sessions) = Len(v.sessions) /\ Len(w.messages) = Len(v.messages)

LEMMA DrawnKeeps ==
  ASSUME NEW v, ViewOK(v)
  PROVE  LET w == Drawn(v) IN
         /\ ViewOK(w) /\ Kept(v, w) /\ w.shown = v.shown /\ w.active = v.active
         /\ \A me : Calm(v, me) => Calm(w, me) /\ Shown(w) /\ w.page = v.page
  <1> DEFINE w == Drawn(v)
  <1>1. CASE ~Mounted(v) \/ v.active = 0
    <2>1. w = v
      BY <1>1 DEF Drawn
    <2>2. Shown(v)
      BY <1>1 DEF Shown
    <2> QED BY <2>1, <2>2 DEF Kept
  <1>2. CASE Mounted(v) /\ v.active # 0
    <2> DEFINE s == v.sessions[v.active]
               crash == \E j \in 1..Len(s.messages) :
                          v.messages[s.messages[j]].from \notin {0, s.owner}
    <2>1. CASE crash
      <3>1. w = [v EXCEPT !.page = "crashed", !.cards = << >>]
        BY <1>2, <2>1, DrawnEffect
      <3> HIDE DEF w, crash
      <3>2. /\ w.page = "crashed" /\ w.cards = << >> /\ w.sessions = v.sessions
            /\ w.messages = v.messages /\ w.decrypting = v.decrypting
            /\ Kept(v, w) /\ w.shown = v.shown /\ w.active = v.active
        BY <3>1 DEF ViewOK, Views, Kept
      <3>3. w \in Views
        <4>1. << >> \in Seq(CardSet)
          OBVIOUS
        <4> QED BY <4>1, <3>1 DEF ViewOK, Views
      <3>4. InRange(w)
        BY <3>2 DEF ViewOK, InRange, Kept
      <3>5. ASSUME NEW me, Calm(v, me) PROVE FALSE
        <4>1. v.active \in 1..Len(v.sessions)
          BY <1>2, ViewParts
        <4>2. \A j \in 1..Len(s.messages) : v.messages[s.messages[j]].from \in {0, s.owner}
          BY <3>5, <4>1, Within DEF Calm, CalmSessions, CalmMessages, Places, At
        <4> QED BY <2>1, <4>2 DEF crash
      <3> QED BY <3>2, <3>3, <3>4, <3>5 DEF ViewOK, w
    <2>2. CASE ~crash
      <3>1. DrawnTo(v, w) /\ ViewOK(w)
        BY <1>2, <2>2, DrawnEffect
      <3>2. \A me : Calm(v, me) => Calm(w, me) /\ Shown(w)
        BY <1>2, DrawnCalm
      <3> HIDE DEF w
      <3>3. Kept(v, w) /\ w.shown = v.shown /\ w.active = v.active /\ w.page = v.page
        BY <3>1 DEF DrawnTo, Kept
      <3> QED BY <3>1, <3>2, <3>3 DEF w
    <2> QED BY <2>1, <2>2
  <1> QED BY <1>1, <1>2

\* Cards and messages that stay keep telling the truth when sessions are added.
LEMMA SameCards ==
  ASSUME NEW v, NEW x, CalmCards(v), x.messages = v.messages, x.cards = v.cards,
         \A l \in 1..Len(v.sessions) :
           /\ l \in 1..Len(x.sessions)
           /\ \A j : (j \in Places(x, l) <=> j \in Places(v, l)) /\ At(x, l, j) = At(v, l, j)
  PROVE  CalmCards(x)
  <1>1. ASSUME NEW j \in 1..Len(v.cards)
        PROVE  /\ v.cards[j].state = v.messages[v.cards[j].mounted].state
               /\ Own(v, v.cards[j].mounted) =>
                    v.messages[v.cards[j].mounted].onStateChange.listener = j
               /\ \E i \in 1..Len(x.sessions) :
                    j \in Places(x, i) /\ At(x, i, j) = v.cards[j].mounted
    <2>1. PICK i \in 1..Len(v.sessions) : j \in Places(v, i) /\ At(v, i, j) = v.cards[j].mounted
      BY DEF CalmCards
    <2>2. i \in 1..Len(x.sessions) /\ j \in Places(x, i) /\ At(x, i, j) = v.cards[j].mounted
      BY <2>1
    <2>3. /\ v.cards[j].state = v.messages[v.cards[j].mounted].state
          /\ Own(v, v.cards[j].mounted) =>
               v.messages[v.cards[j].mounted].onStateChange.listener = j
      BY DEF CalmCards
    <2> QED BY <2>2, <2>3
  <1>2. \A m \in 1..Len(v.messages) :
          LET l == v.messages[m].onStateChange.listener
          IN  l \in {None, NoCard} \/ (l \in 1..Len(v.cards) /\ v.cards[l].mounted = m)
    BY DEF CalmCards
  <1>3. \A m : Own(x, m) <=> Own(v, m)
    BY DEF Own
  <1> QED BY SMTT(40), <1>1, <1>2, <1>3 DEF CalmCards

\* What is said of the sessions, messages and cards of a view.
LEMMA CalmAlike ==
  ASSUME NEW v, NEW x, NEW me, Calm(v, me),
         x.sessions = v.sessions, x.messages = v.messages, x.decrypting = v.decrypting,
         x.cards = v.cards, x.self = TRUE, x.page # "crashed"
  PROVE  Calm(x, me)
  <1>1. CalmSessions(x, me)
    BY DEF Calm, CalmSessions, Places, At
  <1>2. CalmMessages(x, me)
    BY DEF Calm, CalmMessages
  <1>3. CalmCards(x)
    <2>1. \A i, j : (j \in Places(x, i) <=> j \in Places(v, i)) /\ At(x, i, j) = At(v, i, j)
      BY DEF Places, At
    <2>2. CalmCards(v)
      BY DEF Calm
    <2> QED BY <2>1, <2>2, SameCards
  <1> QED BY <1>1, <1>2, <1>3 DEF Calm

\* TMCSAnonymousUI is rendered.
LEMMA RenderedKeeps ==
  ASSUME NEW v, ViewOK(v), NEW me \in Owners
  PROVE  LET w == Rendered(v, me) IN
         /\ ViewOK(w) /\ Kept(v, w) /\ w.shown = v.shown /\ w.active = v.active
         /\ Calm(v, me) => Calm(w, me) /\ Shown(w) /\ w.page = v.page
  <1> DEFINE w == Rendered(v, me)
             o == (v.sessions[v.active].owner = me)
             x == [v EXCEPT !.self = o]
  <1>1. CASE v.active = 0
    <2>1. w = v
      BY <1>1 DEF Rendered
    <2>2. Shown(v)
      BY <1>1 DEF Shown
    <2> QED BY <2>1, <2>2 DEF Kept
  <1>2. CASE v.active # 0
    <2>1. w = Drawn(x)
      BY <1>2 DEF Rendered
    <2>2. v.active \in 1..Len(v.sessions)
      BY <1>2, ViewParts
    <2>3. Calm(v, me) => o
      BY <2>2 DEF Calm, CalmSessions
    <2>4. o \in BOOLEAN
      OBVIOUS
    <2> HIDE DEF o, w
    <2>5. x \in Views
      BY <2>4 DEF ViewOK, Views
    <2>6. /\ x.sessions = v.sessions /\ x.messages = v.messages /\ x.decrypting = v.decrypting
          /\ x.onNewSession = v.onNewSession /\ x.onContactRequest = v.onContactRequest
          /\ x.page = v.page /\ x.shown = v.shown /\ x.active = v.active
          /\ x.requests = v.requests /\ x.missed = v.missed /\ x.self = o /\ x.cards = v.cards
      BY DEF ViewOK, Views
    <2> HIDE DEF x
    <2>7. InRange(x)
      BY <2>6 DEF ViewOK, InRange
    <2>8. Calm(v, me) => Calm(x, me)
      BY <2>3, <2>6, CalmAlike DEF Calm
    <2>9. /\ ViewOK(w) /\ Kept(x, w) /\ w.shown = x.shown /\ w.active = x.active
          /\ Calm(x, me) => Calm(w, me) /\ Shown(w) /\ w.page = x.page
      BY <2>1, <2>5, <2>7, DrawnKeeps DEF ViewOK
    <2> QED BY <2>6, <2>8, <2>9 DEF Kept, w
  <1> QED BY <1>1, <1>2

\* The sessions are listed, and one is visible.
LEMMA SessionsListedKeeps ==
  ASSUME NEW v, ViewOK(v), NEW me \in Owners, NEW i \in 1..Len(v.sessions)
  PROVE  LET w == SessionsListed(v, i, me) IN
         /\ ViewOK(w) /\ Kept(v, w)
         /\ Mounted(v) => w.shown = Len(v.sessions)
         /\ Calm(v, me) => Calm(w, me) /\ Shown(w) /\ w.page = v.page
  <1> DEFINE w == SessionsListed(v, i, me)
             x == [v EXCEPT !.shown = Len(v.sessions), !.active = IF @ = 0 THEN i ELSE @]
  <1>1. CASE ~Mounted(v)
    <2>1. w = v
      BY <1>1 DEF SessionsListed
    <2>2. Shown(v)
      BY <1>1 DEF Shown
    <2> QED BY <1>1, <2>1, <2>2 DEF Kept
  <1>2. CASE Mounted(v)
    <2>1. w = Rendered(x, me)
      BY <1>2 DEF SessionsListed
    <2>2. Len(v.sessions) \in Nat /\ i \in Nat /\ v.active \in Nat /\ v.shown \in Nat
          /\ v.shown <= Len(v.sessions) /\ v.active <= v.shown /\ i <= Len(v.sessions)
      BY ViewParts DEF ViewOK, InRange
    <2>3. x \in Views
      BY <2>2 DEF ViewOK, Views
    <2>4. /\ x.sessions = v.sessions /\ x.messages = v.messages /\ x.decrypting = v.decrypting
          /\ x.onNewSession = v.onNewSession /\ x.onContactRequest = v.onContactRequest
          /\ x.page = v.page /\ x.shown = Len(v.sessions)
          /\ x.active = (IF v.active = 0 THEN i ELSE v.active)
          /\ x.requests = v.requests /\ x.missed = v.missed /\ x.self = v.self /\ x.cards = v.cards
      BY DEF ViewOK, Views
    <2> HIDE DEF x, w
    <2>5. InRange(x)
      <3>1. x.shown \in 0..Len(x.sessions) /\ x.active \in 0..x.shown
        BY <2>2, <2>4
      <3> QED BY <3>1, <2>4 DEF ViewOK, InRange
    <2>6. Calm(v, me) => Calm(x, me)
      BY <2>4, CalmAlike DEF Calm
    <2>7. /\ ViewOK(w) /\ Kept(x, w) /\ w.shown = x.shown
          /\ Calm(x, me) => Calm(w, me) /\ Shown(w) /\ w.page = x.page
      BY <2>1, <2>3, <2>5, RenderedKeeps DEF ViewOK
    <2> QED BY <2>4, <2>6, <2>7 DEF Kept, w
  <1> QED BY <1>1, <1>2

\* Every session is listed, or will be when the page listens.
Listed(v) ==
    /\ \A i \in 1..Len(v.sessions) :
         i <= v.shown \/ \E n \in 1..Len(v.onNewSession.eventqueue) :
                           v.onNewSession.eventqueue[n] = i
    /\ v.onNewSession.listener = v.onContactRequest.listener
    /\ v.onNewSession.listener # None =>
         v.onNewSession.eventqueue = << >> /\ v.onContactRequest.eventqueue = << >> /\ Mounted(v)

\* A trigger is triggered.
LEMMA Triggered ==
  ASSUME NEW t, t = [listener |-> t.listener, eventqueue |-> t.eventqueue],
         NEW S, t.eventqueue \in Seq(S), NEW e \in S
  PROVE  LET u == E!Trigger(t, e) IN
         /\ u = [listener |-> u.listener, eventqueue |-> u.eventqueue]
         /\ u.listener = t.listener
         /\ t.listener # None => u = t
         /\ t.listener = None => u.eventqueue = Append(t.eventqueue, e)
         /\ u.eventqueue \in Seq(S)
         /\ E!Dispatched(t, e) = << >> <=> t.listener = None
  <1> DEFINE u == E!Trigger(t, e)
             q == t.eventqueue
  <1>1. u = IF t.listener = None THEN [t EXCEPT !.eventqueue = Append(@, e)] ELSE t
    BY Triggers
  <1>2. E!Dispatched(t, e) = << >> <=> t.listener = None
    <2>1. <<e>> # << >>
      OBVIOUS
    <2> QED BY <2>1, Triggers
  <1>3. q \in Seq(S) /\ Len(q) \in Nat
    OBVIOUS
  <1>4. Append(q, e) \in Seq(S)
    BY <1>3
  <1>5. CASE t.listener = None
    <2>1. [t EXCEPT !.eventqueue = Append(@, e)] =
            [listener |-> t.listener, eventqueue |-> Append(q, e)]
      BY SMTT(30)
    <2>2. u.listener = t.listener /\ u.eventqueue = Append(q, e)
          /\ u = [listener |-> u.listener, eventqueue |-> u.eventqueue]
      BY <1>1, <1>5, <2>1
    <2> HIDE DEF u
    <2> QED BY <1>2, <1>3, <1>4, <1>5, <2>2 DEF u
  <1>6. CASE t.listener # None
    BY <1>1, <1>2, <1>3, <1>6
  <1> QED BY <1>5, <1>6

LEMMA EmptySeqs == \A S : << >> \in Seq(S) /\ Len(<< >>) = 0 /\ 1..Len(<< >>) = {}
  OBVIOUS

LEMMA NewTriggerTyped ==
  ASSUME NEW L, None \in L, NEW S
  PROVE  E!NewTrigger \in [listener : L, eventqueue : Seq(S)]
  BY EmptySeqs, Triggers

\* A session is pushed, and its event triggered.
LEMMA SessionAddedKeeps ==
  ASSUME NEW v, ViewOK(v), NEW p \in Peers, NEW me \in Owners
  PROVE  LET w == SessionAdded(v, p, me) IN
         /\ ViewOK(w)
         /\ Len(w.sessions) = Len(v.sessions) + 1 /\ Len(w.messages) = Len(v.messages)
         /\ w.requests = v.requests /\ w.missed = v.missed
         /\ w.onContactRequest = v.onContactRequest
         /\ w.onNewSession.listener = v.onNewSession.listener
         /\ Calm(v, me) /\ Shown(v) => Calm(w, me) /\ Shown(w) /\ w.page = v.page
         /\ Calm(v, me) /\ Listed(v) => Listed(w)
  <1> DEFINE w == SessionAdded(v, p, me)
             i == Len(v.sessions) + 1
             new == [with |-> p, owner |-> me, messages |-> << >>, onMessage |-> E!NewTrigger]
             x == [v EXCEPT !.sessions = Append(@, new), !.onNewSession = E!Trigger(@, i)]
  <1>1. w = IF E!Dispatched(v.onNewSession, i) = << >> THEN x ELSE SessionsListed(x, i, me)
    BY DEF SessionAdded
  <1>2. v \in Views /\ v.sessions \in Seq(Sessions) /\ Len(v.sessions) \in Nat
    BY ViewParts DEF ViewOK
  <1>3. new \in Sessions
    <2>1. E!NewTrigger \in [listener : {None, "ChatSession"}, eventqueue : Seq(Numbers)]
      BY NewTriggerTyped
    <2> QED BY <2>1, EmptySeqs DEF Sessions
  <1>4. /\ v.onNewSession = [listener |-> v.onNewSession.listener,
                             eventqueue |-> v.onNewSession.eventqueue]
        /\ v.onNewSession.listener \in {None, "page"} /\ v.onNewSession.eventqueue \in Seq(Nat)
        /\ i \in Nat
    BY <1>2 DEF Views
  <1>5. /\ new.owner = me /\ new.messages = << >> /\ new.onMessage.eventqueue = << >>
        /\ new.onMessage.listener = None
    BY Triggers
  <1>6. /\ Append(v.sessions, new) \in Seq(Sessions)
        /\ Len(Append(v.sessions, new)) = i
        /\ \A k \in 1..Len(v.sessions) : Append(v.sessions, new)[k] = v.sessions[k]
        /\ Append(v.sessions, new)[i] = new
    BY <1>2, <1>3
  <1> HIDE DEF w, new
  <1>7. /\ x.messages = v.messages /\ x.decrypting = v.decrypting
        /\ x.onNewSession = E!Trigger(v.onNewSession, i)
        /\ x.onContactRequest = v.onContactRequest
        /\ x.page = v.page /\ x.shown = v.shown /\ x.active = v.active
        /\ x.requests = v.requests /\ x.missed = v.missed /\ x.self = v.self /\ x.cards = v.cards
        /\ x.sessions = Append(v.sessions, new)
    BY <1>2 DEF Views
  <1>8. x \in Views
    <2>1. E!Trigger(v.onNewSession, i) \in [listener : {None, "page"}, eventqueue : Seq(Nat)]
      <3> DEFINE u == E!Trigger(v.onNewSession, i)
      <3>1. /\ u = [listener |-> u.listener, eventqueue |-> u.eventqueue]
            /\ u.listener = v.onNewSession.listener /\ u.eventqueue \in Seq(Nat)
        BY <1>4, Triggered
      <3> HIDE DEF u
      <3>2. u \in [listener : {None, "page"}, eventqueue : Seq(Nat)]
        BY <3>1, <1>4
      <3> QED BY <3>2 DEF u
    <2> QED BY <1>2, <1>6, <2>1 DEF Views
  <1> HIDE DEF x
  <1>9. /\ Len(x.sessions) = i /\ x.sessions[i] = new
        /\ \A k \in 1..Len(v.sessions) : x.sessions[k] = v.sessions[k]
        /\ \A k \in 1..Len(x.sessions) : k \in 1..Len(v.sessions) \/ k = i
    BY <1>2, <1>6, <1>7
  <1>10. /\ x.onNewSession.listener = v.onNewSession.listener
         /\ IF v.onNewSession.listener = None
            THEN /\ Len(x.onNewSession.eventqueue) = Len(v.onNewSession.eventqueue) + 1
                 /\ x.onNewSession.eventqueue[Len(v.onNewSession.eventqueue) + 1] = i
                 /\ \A n \in 1..Len(v.onNewSession.eventqueue) :
                      x.onNewSession.eventqueue[n] = v.onNewSession.eventqueue[n]
            ELSE x.onNewSession = v.onNewSession
         /\ Len(v.onNewSession.eventqueue) \in Nat
         /\ E!Dispatched(v.onNewSession, i) = << >> <=> v.onNewSession.listener = None
    <2> DEFINE t == v.onNewSession
               u == E!Trigger(t, i)
    <2>1. t = [listener |-> t.listener, eventqueue |-> t.eventqueue] /\ t.eventqueue \in Seq(Nat)
          /\ i \in Nat
      BY <1>4
    <2> HIDE DEF t
    <2>2. /\ u.listener = t.listener
          /\ t.listener # None => u = t
          /\ t.listener = None =>
              /\ Len(u.eventqueue) = Len(t.eventqueue) + 1
              /\ u.eventqueue[Len(t.eventqueue) + 1] = i
              /\ \A n \in 1..Len(t.eventqueue) : u.eventqueue[n] = t.eventqueue[n]
          /\ Len(t.eventqueue) \in Nat
          /\ E!Dispatched(t, i) = << >> <=> t.listener = None
      <3>1. /\ u.listener = t.listener
            /\ t.listener # None => u = t
            /\ t.listener = None => u.eventqueue = Append(t.eventqueue, i)
            /\ E!Dispatched(t, i) = << >> <=> t.listener = None
        BY <2>1, Triggered
      <3> HIDE DEF u
      <3>2. /\ Len(t.eventqueue) \in Nat
            /\ Len(Append(t.eventqueue, i)) = Len(t.eventqueue) + 1
            /\ Append(t.eventqueue, i)[Len(t.eventqueue) + 1] = i
            /\ \A n \in 1..Len(t.eventqueue) : Append(t.eventqueue, i)[n] = t.eventqueue[n]
        BY <2>1
      <3> QED BY <3>1, <3>2
    <2>3. x.onNewSession = u
      BY <1>7 DEF t
    <2> HIDE DEF u
    <2> QED BY <2>2, <2>3 DEF t
  <1>11. InRange(x)
    <2>1. \A k \in 1..Len(x.sessions) :
            /\ Len(x.sessions[k].messages) <= Len(x.messages)
            /\ \A j \in 1..Len(x.sessions[k].messages) :
                 x.sessions[k].messages[j] \in 1..Len(x.messages)
            /\ \A j \in 1..Len(x.sessions[k].onMessage.eventqueue) :
                 x.sessions[k].onMessage.eventqueue[j] \in 1..Len(x.messages)
      <3> SUFFICES ASSUME NEW k \in 1..Len(x.sessions)
                   PROVE  /\ Len(x.sessions[k].messages) <= Len(v.messages)
                          /\ \A j \in 1..Len(x.sessions[k].messages) :
                               x.sessions[k].messages[j] \in 1..Len(v.messages)
                          /\ \A j \in 1..Len(x.sessions[k].onMessage.eventqueue) :
                               x.sessions[k].onMessage.eventqueue[j] \in 1..Len(v.messages)
        BY <1>7
      <3>1. CASE k \in 1..Len(v.sessions)
        BY <3>1, <1>9 DEF ViewOK, InRange
      <3>2. CASE k = i
        <4>1. Len(v.messages) \in Nat
          BY ViewParts
        <4> QED BY <4>1, <3>2, <1>5, <1>9, EmptySeqs
      <3> QED BY <3>1, <3>2, <1>9
    <2>2. x.shown \in 0..Len(x.sessions) /\ x.active \in 0..x.shown
      BY <1>2, <1>7, <1>9 DEF ViewOK, InRange
    <2>3. \A j \in 1..Len(x.onNewSession.eventqueue) :
            x.onNewSession.eventqueue[j] \in 1..Len(x.sessions)
      <3>1. \A j \in 1..Len(v.onNewSession.eventqueue) :
              v.onNewSession.eventqueue[j] \in 1..Len(x.sessions)
        BY <1>2, <1>9 DEF ViewOK, InRange
      <3>2. CASE v.onNewSession.listener = None
        <4> SUFFICES ASSUME NEW j \in 1..Len(x.onNewSession.eventqueue)
                     PROVE  x.onNewSession.eventqueue[j] \in 1..Len(x.sessions)
          OBVIOUS
        <4>1. \/ j \in 1..Len(v.onNewSession.eventqueue)
              \/ j = Len(v.onNewSession.eventqueue) + 1
          BY <3>2, <1>10
        <4>2. i \in 1..Len(x.sessions)
          BY <1>2, <1>9
        <4>3. x.onNewSession.eventqueue[Len(v.onNewSession.eventqueue) + 1] = i
              /\ \A n \in 1..Len(v.onNewSession.eventqueue) :
                      x.onNewSession.eventqueue[n] = v.onNewSession.eventqueue[n]
          BY <3>2, <1>10
        <4> QED BY <4>1, <4>2, <4>3, <3>1
      <3> QED BY <3>1, <3>2, <1>10
    <2>4. /\ Len(x.messages) \in 0..MaxMessages /\ x.decrypting \subseteq 1..Len(x.messages)
          /\ \A j \in 1..Len(x.cards) :
               /\ x.cards[j].mounted \in 1..Len(x.messages)
               /\ x.cards[j].message \in 1..Len(x.messages)
      BY <1>7 DEF ViewOK, InRange
    <2> QED BY <2>1, <2>2, <2>3, <2>4 DEF InRange
  <1>12. ViewOK(x) /\ i \in 1..Len(x.sessions)
    BY <1>2, <1>8, <1>9, <1>11 DEF ViewOK
  <1>13. ASSUME Calm(v, me) PROVE Calm(x, me)
    <2>1. CalmSessions(x, me)
      <3> SUFFICES ASSUME NEW k \in 1..Len(x.sessions)
                   PROVE  /\ x.sessions[k].owner = me
                          /\ x.sessions[k].onMessage.listener # None =>
                               x.sessions[k].onMessage.eventqueue = << >>
                          /\ \A l \in 1..Len(x.sessions) :
                               \A j \in Places(x, k), n \in Places(x, l) :
                                 At(x, k, j) = At(x, l, n) => k = l /\ j = n
                          /\ \A j \in Places(x, k) :
                               \/ x.messages[At(x, k, j)].body \/ At(x, k, j) \in x.decrypting
                               \/ \E n \in 1..Len(x.sessions[k].onMessage.eventqueue) :
                                    x.sessions[k].onMessage.eventqueue[n] = At(x, k, j)
        BY DEF CalmSessions
      <3>1. Places(x, i) = {}
        BY <1>5, <1>9, EmptySeqs DEF Places
      <3>2. \A l \in 1..Len(v.sessions) : Places(x, l) = Places(v, l)
        BY <1>9 DEF Places
      <3>3. \A l \in 1..Len(v.sessions) : \A j : At(x, l, j) = At(v, l, j)
        BY <1>9 DEF At
      <3>4. CASE k = i
        BY <3>1, <3>4, <1>5, <1>9
      <3>5. CASE k \in 1..Len(v.sessions)
        <4>1. /\ v.sessions[k].owner = me
              /\ v.sessions[k].onMessage.listener # None =>
                   v.sessions[k].onMessage.eventqueue = << >>
              /\ \A l \in 1..Len(v.sessions) :
                   \A j \in Places(v, k), n \in Places(v, l) :
                     At(v, k, j) = At(v, l, n) => k = l /\ j = n
              /\ \A j \in Places(v, k) :
                   \/ v.messages[At(v, k, j)].body \/ At(v, k, j) \in v.decrypting
                   \/ \E n \in 1..Len(v.sessions[k].onMessage.eventqueue) :
                        v.sessions[k].onMessage.eventqueue[n] = At(v, k, j)
          BY <3>5, <1>13 DEF Calm, CalmSessions
        <4>2. x.sessions[k] = v.sessions[k]
          BY <3>5, <1>9
        <4>3. \A l \in 1..Len(x.sessions) : \A j \in Places(x, k), n \in Places(x, l) :
                                 At(x, k, j) = At(x, l, n) => k = l /\ j = n
          BY <4>1, <3>1, <3>2, <3>3, <3>5, <1>9
        <4>4. \A j \in Places(x, k) :
                               \/ x.messages[At(x, k, j)].body \/ At(x, k, j) \in x.decrypting
                               \/ \E n \in 1..Len(x.sessions[k].onMessage.eventqueue) :
                                    x.sessions[k].onMessage.eventqueue[n] = At(x, k, j)
          BY <4>1, <4>2, <3>2, <3>3, <3>5, <1>7
        <4> QED BY <4>1, <4>2, <4>3, <4>4
      <3> QED BY <3>4, <3>5, <1>9
    <2>2. CalmMessages(x, me)
      BY <1>7, <1>13 DEF Calm, CalmMessages
    <2>3. CalmCards(x)
      <3>1. \A l \in 1..Len(v.sessions) : l \in 1..Len(x.sessions)
              /\ \A j : (j \in Places(x, l) <=> j \in Places(v, l)) /\ At(x, l, j) = At(v, l, j)
        BY <1>2, <1>9 DEF Places, At
      <3>2. CalmCards(v)
        BY <1>13 DEF Calm
      <3> QED BY <3>1, <3>2, <1>7, SameCards
    <2> QED BY <2>1, <2>2, <2>3, <1>7, <1>13 DEF Calm
  <1>14. CASE v.onNewSession.listener = None
    <2>1. w = x
      BY <1>1, <1>10, <1>14
    <2>2. ASSUME Calm(v, me), Shown(v) PROVE Shown(x)
      <3> SUFFICES ASSUME Mounted(v), v.active # 0
                   PROVE  /\ x.sessions[v.active].onMessage.listener = "ChatSession"
                          /\ \A j \in Places(x, v.active) :
                               \/ At(x, v.active, j) \in v.decrypting
                               \/ j <= Len(v.cards) /\ v.cards[j].message = At(x, v.active, j)
        BY <1>7 DEF Shown, Mounted
      <3>1. x.sessions[v.active] = v.sessions[v.active]
        BY <1>9, ViewParts
      <3> QED BY <3>1, <2>2 DEF Shown, Places, At
    <2>3. ASSUME Listed(v) PROVE Listed(x)
      <3>1. ASSUME NEW k \in 1..Len(x.sessions)
            PROVE  k <= x.shown \/ \E n \in 1..Len(x.onNewSession.eventqueue) :
                           x.onNewSession.eventqueue[n] = k
        <4>1. CASE k = i
          BY SMTT(30), <4>1, <1>10, <1>14
        <4>2. CASE k \in 1..Len(v.sessions)
          <5>1. k <= v.shown \/ \E n \in 1..Len(v.onNewSession.eventqueue) :
                           v.onNewSession.eventqueue[n] = k
            BY <4>2, <2>3 DEF Listed
          <5> QED BY <5>1, <1>7, <1>10, <1>14
        <4> QED BY <4>1, <4>2, <1>9
      <3> QED BY <3>1, <2>3, <1>7, <1>10, <1>14 DEF Listed
    <2> QED BY <2>1, <2>2, <2>3, <1>7, <1>9, <1>10, <1>12, <1>13 DEF w
  <1>15. CASE v.onNewSession.listener # None
    <2>1. w = SessionsListed(x, i, me)
      BY <1>1, <1>10, <1>15
    <2>2. /\ ViewOK(w) /\ Kept(x, w)
          /\ Mounted(x) => w.shown = Len(x.sessions)
          /\ Calm(x, me) => Calm(w, me) /\ Shown(w) /\ w.page = x.page
      BY <2>1, <1>12, SessionsListedKeeps
    <2>3. ASSUME Calm(v, me), Listed(v) PROVE Listed(w)
      <3>1. Mounted(v) /\ Mounted(x) /\ w.page = v.page
        BY <2>2, <2>3, <1>7, <1>13, <1>15 DEF Listed, Mounted
      <3>2. w.shown = Len(w.sessions)
        BY <2>2, <3>1 DEF Kept
      <3>3. w.onNewSession = v.onNewSession /\ w.onContactRequest = v.onContactRequest
        BY <2>2, <1>7, <1>10, <1>15 DEF Kept
      <3>4. \A k \in 1..Len(w.sessions) : k <= w.shown
        BY <3>2
      <3> QED BY <3>1, <3>3, <3>4, <2>3 DEF Listed, Mounted
    <2> QED BY <2>2, <2>3, <1>7, <1>9, <1>10, <1>13 DEF Kept, w
  <1> QED BY <1>14, <1>15

\* v when message m, from the given sender, has been pushed to session i, and is
\* being decrypted if d.
PushedTo(v, y, i, from, st, d) ==
    LET m == Len(v.messages) + 1
        s == v.sessions[i]
    IN  /\ y.requests = v.requests /\ y.missed = v.missed
        /\ y.onNewSession = v.onNewSession /\ y.onContactRequest = v.onContactRequest
        /\ y.page = v.page /\ y.shown = v.shown /\ y.active = v.active /\ y.self = v.self
        /\ y.cards = v.cards
        /\ y.decrypting = v.decrypting \cup (IF d THEN {m} ELSE {})
        /\ Len(y.messages) = m /\ y.messages[m] = NewMessage(from, st)
        /\ \A k \in 1..Len(v.messages) : y.messages[k] = v.messages[k]
        /\ Len(y.sessions) = Len(v.sessions)
        /\ \A k \in 1..Len(v.sessions) : k # i => y.sessions[k] = v.sessions[k]
        /\ y.sessions[i].owner = s.owner
        /\ y.sessions[i].messages = Append(s.messages, m)
        /\ y.sessions[i].onMessage.listener = s.onMessage.listener
        /\ y.sessions[i].onMessage.eventqueue =
             IF s.onMessage.listener = None THEN Append(s.onMessage.eventqueue, m)
             ELSE s.onMessage.eventqueue

\* What Append does.
LEMMA Appended ==
  ASSUME NEW S, NEW s \in Seq(S), NEW e \in S
  PROVE  /\ Append(s, e) \in Seq(S)
         /\ Len(s) \in Nat /\ Len(Append(s, e)) = Len(s) + 1
         /\ Append(s, e)[Len(s) + 1] = e
         /\ \A n \in 1..Len(s) : Append(s, e)[n] = s[n]
  OBVIOUS

LEMMA PushedTyped ==
  ASSUME NEW v, ViewOK(v), NEW i \in 1..Len(v.sessions), NEW from \in Owners,
         NEW st \in MsgState, Len(v.messages) < MaxMessages, NEW d \in BOOLEAN, NEW y,
         y = [v EXCEPT !.messages = Append(@, NewMessage(from, st)),
                       !.sessions[i].messages = Append(@, Len(v.messages) + 1),
                       !.sessions[i].onMessage = E!Trigger(@, Len(v.messages) + 1),
                       !.decrypting = @ \cup (IF d THEN {Len(v.messages) + 1} ELSE {})]
  PROVE  y \in Views /\ PushedTo(v, y, i, from, st, d)
  <1> DEFINE m == Len(v.messages) + 1
             s == v.sessions[i]
             new == NewMessage(from, st)
             t == E!Trigger(s.onMessage, m)
             r == [s EXCEPT !.messages = Append(@, m), !.onMessage = t]
  <1>1. /\ v \in Views /\ s \in Sessions /\ Len(v.messages) \in Nat /\ m \in Numbers
        /\ v.messages \in Seq(Messages) /\ v.sessions \in Seq(Sessions)
        /\ s.messages \in Seq(Numbers)
    <2>1. Len(v.messages) \in Nat /\ v.messages \in Seq(Messages) /\ v.sessions \in Seq(Sessions)
          /\ s \in Sessions /\ s.messages \in Seq(Numbers)
      BY ViewParts
    <2> QED BY <2>1, BoundsAssumption DEF ViewOK, Numbers
  <1>2. new \in Messages
    <2>1. E!NewTrigger \in
            [listener : {None} \cup (NoCard..MaxMessages), eventqueue : Seq(MsgState)]
      BY NewTriggerTyped
    <2> QED BY <2>1 DEF NewMessage, Messages
  <1>3. /\ t \in [listener : {None, "ChatSession"}, eventqueue : Seq(Numbers)]
        /\ t.listener = s.onMessage.listener
        /\ t.eventqueue = IF s.onMessage.listener = None THEN Append(s.onMessage.eventqueue, m)
                          ELSE s.onMessage.eventqueue
    <2> DEFINE o == s.onMessage
    <2>1. /\ o = [listener |-> o.listener, eventqueue |-> o.eventqueue]
          /\ o.eventqueue \in Seq(Numbers) /\ o.listener \in {None, "ChatSession"}
      BY <1>1 DEF Sessions
    <2> HIDE DEF o, m
    <2> DEFINE u == E!Trigger(o, m)
    <2>2. /\ u = [listener |-> u.listener, eventqueue |-> u.eventqueue]
          /\ u.listener = o.listener /\ (o.listener # None => u = o)
          /\ o.listener = None => u.eventqueue = Append(o.eventqueue, m)
          /\ u.eventqueue \in Seq(Numbers)
      BY <1>1, <2>1, Triggered
    <2> HIDE DEF u
    <2>3. /\ u \in [listener : {None, "ChatSession"}, eventqueue : Seq(Numbers)]
          /\ u.listener = o.listener
          /\ u.eventqueue = IF o.listener = None THEN Append(o.eventqueue, m) ELSE o.eventqueue
      BY <2>1, <2>2
    <2> QED BY <2>3 DEF u, o
  <1> HIDE DEF m, new, t
  <1>4. /\ Append(s.messages, m) \in Seq(Numbers)
        /\ Append(v.messages, new) \in Seq(Messages)
        /\ Len(Append(v.messages, new)) = Len(v.messages) + 1
        /\ Append(v.messages, new)[Len(v.messages) + 1] = new
        /\ \A k \in 1..Len(v.messages) : Append(v.messages, new)[k] = v.messages[k]
    BY <1>1, <1>2, Appended
  <1>5. /\ r \in Sessions /\ r.owner = s.owner /\ r.messages = Append(s.messages, m)
        /\ r.onMessage = t
    BY <1>1, <1>3, <1>4 DEF Sessions
  <1> DEFINE ss == [v.sessions EXCEPT ![i].messages = Append(@, m),
                                      ![i].onMessage = E!Trigger(@, m)]
  <1>6. ss = [v.sessions EXCEPT ![i] = r]
    <2>1. DOMAIN v.sessions = 1..Len(v.sessions)
      BY ViewParts
    <2>2. v.sessions[i] = s
      OBVIOUS
    <2> QED BY <1>1, <2>1 DEF Sessions, t
  <1>10. /\ y.requests = v.requests /\ y.missed = v.missed
         /\ y.onNewSession = v.onNewSession /\ y.onContactRequest = v.onContactRequest
         /\ y.page = v.page /\ y.shown = v.shown /\ y.active = v.active /\ y.self = v.self
         /\ y.cards = v.cards
         /\ y.decrypting = v.decrypting \cup (IF d THEN {m} ELSE {})
         /\ y.messages = Append(v.messages, new)
         /\ y.sessions = ss
    BY <1>1 DEF m, new, Views
  <1> HIDE DEF r
  <1>7. /\ [v.sessions EXCEPT ![i] = r] \in Seq(Sessions)
        /\ Len([v.sessions EXCEPT ![i] = r]) = Len(v.sessions)
        /\ [v.sessions EXCEPT ![i] = r][i] = r
        /\ \A k \in 1..Len(v.sessions) : k # i => [v.sessions EXCEPT ![i] = r][k] = v.sessions[k]
    BY <1>1, <1>5
  <1>8. v.decrypting \cup (IF d THEN {m} ELSE {}) \in SUBSET Numbers
    BY <1>1 DEF Views
  <1>9. y \in Views
    <2>1. ss \in Seq(Sessions)
      BY <1>6, <1>7
    <2> HIDE DEF ss
    <2> QED BY <1>1, <1>4, <2>1, <1>8, <1>10 DEF Views
  <1>11. PushedTo(v, y, i, from, st, d)
    <2>1. /\ Len(y.messages) = m /\ y.messages[m] = new
          /\ \A k \in 1..Len(v.messages) : y.messages[k] = v.messages[k]
      BY <1>4, <1>10 DEF m
    <2>2. /\ Len(y.sessions) = Len(v.sessions)
          /\ \A k \in 1..Len(v.sessions) : k # i => y.sessions[k] = v.sessions[k]
          /\ y.sessions[i] = r
      BY <1>6, <1>7, <1>10
    <2>3. /\ y.sessions[i].owner = s.owner
          /\ y.sessions[i].messages = Append(s.messages, m)
          /\ y.sessions[i].onMessage.listener = s.onMessage.listener
          /\ y.sessions[i].onMessage.eventqueue =
               IF s.onMessage.listener = None THEN Append(s.onMessage.eventqueue, m)
               ELSE s.onMessage.eventqueue
      BY <1>3, <1>5, <2>2
    <2> HIDE DEF ss
    <2> QED BY <1>10, <2>1, <2>2, <2>3 DEF PushedTo, m, new
  <1> QED BY <1>9, <1>11

LEMMA PushedInRange ==
  ASSUME NEW v, ViewOK(v), NEW i \in 1..Len(v.sessions), NEW from, NEW st, NEW d \in BOOLEAN,
         Len(v.messages) < MaxMessages, NEW y, PushedTo(v, y, i, from, st, d)
  PROVE  InRange(y)
  <1> DEFINE m == Len(v.messages) + 1
             s == v.sessions[i]
  <1>1. Len(v.messages) \in Nat /\ Len(y.messages) = m /\ Len(y.sessions) = Len(v.sessions)
        /\ 1..Len(v.messages) \subseteq 1..m /\ m \in 1..m /\ m \in Numbers
    <2>1. Len(v.messages) \in Nat
      BY ViewParts
    <2>2. Len(y.messages) = m /\ Len(y.sessions) = Len(v.sessions)
      BY DEF PushedTo
    <2> QED BY <2>1, <2>2, BoundsAssumption DEF Numbers
  <1>2. \A k \in 1..Len(v.sessions) :
            /\ Len(v.sessions[k].messages) <= Len(v.messages)
            /\ \A j \in 1..Len(v.sessions[k].messages) :
                 v.sessions[k].messages[j] \in 1..Len(v.messages)
            /\ \A j \in 1..Len(v.sessions[k].onMessage.eventqueue) :
                 v.sessions[k].onMessage.eventqueue[j] \in 1..Len(v.messages)
    BY DEF ViewOK, InRange
  <1>3. s.messages \in Seq(Numbers) /\ s.onMessage.eventqueue \in Seq(Numbers)
        /\ Len(s.messages) \in Nat /\ Len(s.onMessage.eventqueue) \in Nat
    BY ViewParts
  <1>4. /\ y.sessions[i].messages = Append(s.messages, m)
        /\ y.sessions[i].onMessage.eventqueue =
             IF s.onMessage.listener = None THEN Append(s.onMessage.eventqueue, m)
             ELSE s.onMessage.eventqueue
        /\ \A k \in 1..Len(v.sessions) : k # i => y.sessions[k] = v.sessions[k]
    BY DEF PushedTo
  <1> HIDE DEF m
  <1>5. ASSUME NEW q \in Seq(Numbers), \A j \in 1..Len(q) : q[j] \in 1..Len(v.messages)
        PROVE  /\ Len(Append(q, m)) = Len(q) + 1
               /\ \A j \in 1..Len(Append(q, m)) : Append(q, m)[j] \in 1..m
    <2>1. /\ Len(q) \in Nat /\ Len(Append(q, m)) = Len(q) + 1
          /\ Append(q, m)[Len(q) + 1] = m
          /\ \A n \in 1..Len(q) : Append(q, m)[n] = q[n]
      BY <1>1, Appended
    <2> SUFFICES ASSUME NEW j \in 1..(Len(q) + 1) PROVE Append(q, m)[j] \in 1..m
      BY <2>1
    <2>2. j \in 1..Len(q) \/ j = Len(q) + 1
      BY <2>1
    <2> QED BY <1>1, <1>5, <2>1, <2>2
  <1>6. \A k \in 1..Len(y.sessions) :
            /\ Len(y.sessions[k].messages) <= Len(y.messages)
            /\ \A j \in 1..Len(y.sessions[k].messages) :
                 y.sessions[k].messages[j] \in 1..Len(y.messages)
            /\ \A j \in 1..Len(y.sessions[k].onMessage.eventqueue) :
                 y.sessions[k].onMessage.eventqueue[j] \in 1..Len(y.messages)
    <2> SUFFICES ASSUME NEW k \in 1..Len(v.sessions)
                 PROVE  /\ Len(y.sessions[k].messages) <= m
                        /\ \A j \in 1..Len(y.sessions[k].messages) :
                             y.sessions[k].messages[j] \in 1..m
                        /\ \A j \in 1..Len(y.sessions[k].onMessage.eventqueue) :
                             y.sessions[k].onMessage.eventqueue[j] \in 1..m
      BY <1>1
    <2>1. CASE k # i
      <3>1. Len(v.sessions[k].messages) \in Nat /\ Len(v.messages) <= m
        BY <1>1, ViewParts DEF m
      <3>2. Len(v.sessions[k].messages) <= m
        BY <3>1, <1>1, <1>2 DEF m
      <3> QED BY <3>2, <2>1, <1>1, <1>2, <1>4
    <2>2. CASE k = i
      <3>1. /\ Len(Append(s.messages, m)) = Len(s.messages) + 1
            /\ \A j \in 1..Len(Append(s.messages, m)) : Append(s.messages, m)[j] \in 1..m
        BY <1>2, <1>3, <1>5
      <3>2. Len(s.messages) + 1 <= m
        BY <1>1, <1>2, <1>3 DEF m
      <3>3. \A j \in 1..Len(y.sessions[i].onMessage.eventqueue) :
                             y.sessions[i].onMessage.eventqueue[j] \in 1..m
        <4>1. CASE s.onMessage.listener = None
          BY <4>1, <1>2, <1>3, <1>4, <1>5
        <4>2. CASE s.onMessage.listener # None
          BY <4>2, <1>1, <1>2, <1>4
        <4> QED BY <4>1, <4>2
      <3> QED BY <3>1, <3>2, <3>3, <2>2, <1>4
    <2> QED BY <2>1, <2>2
  <1>7. Len(y.messages) \in 0..MaxMessages
    BY <1>1, BoundsAssumption DEF Numbers
  <1>8. y.decrypting \subseteq 1..Len(y.messages)
    BY <1>1 DEF PushedTo, ViewOK, InRange, m
  <1>9. \A j \in 1..Len(y.cards) :
         y.cards[j].mounted \in 1..Len(y.messages) /\ y.cards[j].message \in 1..Len(y.messages)
    BY <1>1 DEF PushedTo, ViewOK, InRange
  <1>10. /\ y.shown \in 0..Len(y.sessions) /\ y.active \in 0..y.shown
         /\ \A j \in 1..Len(y.onNewSession.eventqueue) :
              y.onNewSession.eventqueue[j] \in 1..Len(y.sessions)
    BY <1>1 DEF PushedTo, ViewOK, InRange
  <1> QED BY <1>6, <1>7, <1>8, <1>9, <1>10 DEF InRange

LEMMA PushedCalm ==
  ASSUME NEW v, ViewOK(v), NEW i \in 1..Len(v.sessions), NEW from, NEW st, NEW d \in BOOLEAN,
         Len(v.messages) < MaxMessages, NEW y, PushedTo(v, y, i, from, st, d),
         NEW me, Calm(v, me), from \in {0, me}, from = 0 => st = "none",
         d \/ from # 0 \/ v.sessions[i].onMessage.listener = None
  PROVE  Calm(y, me)
  <1> DEFINE m == Len(v.messages) + 1
             s == v.sessions[i]
             L == Len(s.messages)
  <1>1. /\ Len(v.messages) \in Nat /\ Len(y.messages) = m /\ Len(y.sessions) = Len(v.sessions)
        /\ \A k \in 1..Len(v.messages) : y.messages[k] = v.messages[k] /\ k # m
        /\ \A k \in 1..m : k \in 1..Len(v.messages) \/ k = m
        /\ y.messages[m].from = from /\ y.messages[m].state = st
        /\ y.messages[m].body = (from # 0) /\ y.messages[m].onStateChange.listener = None
    <2>1. Len(v.messages) \in Nat
      BY ViewParts
    <2>2. /\ Len(y.messages) = m /\ Len(y.sessions) = Len(v.sessions)
          /\ \A k \in 1..Len(v.messages) : y.messages[k] = v.messages[k]
          /\ y.messages[m] = NewMessage(from, st)
      BY DEF PushedTo
    <2>3. E!NewTrigger.listener = None
      BY Triggers
    <2>4. /\ y.messages[m].from = from /\ y.messages[m].state = st
          /\ y.messages[m].body = (from # 0) /\ y.messages[m].onStateChange.listener = None
      BY <2>2, <2>3 DEF NewMessage
    <2> QED BY <2>1, <2>2, <2>4
  <1>2. /\ y.sessions[i].owner = s.owner
        /\ y.sessions[i].messages = Append(s.messages, m)
        /\ y.sessions[i].onMessage.listener = s.onMessage.listener
        /\ y.sessions[i].onMessage.eventqueue =
             IF s.onMessage.listener = None THEN Append(s.onMessage.eventqueue, m)
             ELSE s.onMessage.eventqueue
        /\ \A k \in 1..Len(v.sessions) : k # i => y.sessions[k] = v.sessions[k]
    BY DEF PushedTo
  <1>3. /\ L \in Nat /\ Len(Append(s.messages, m)) = L + 1
        /\ Append(s.messages, m)[L + 1] = m
        /\ \A n \in 1..L : Append(s.messages, m)[n] = s.messages[n]
        /\ Len(s.onMessage.eventqueue) \in Nat
        /\ Len(Append(s.onMessage.eventqueue, m)) = Len(s.onMessage.eventqueue) + 1
        /\ Append(s.onMessage.eventqueue, m)[Len(s.onMessage.eventqueue) + 1] = m
        /\ \A n \in 1..Len(s.onMessage.eventqueue) :
             Append(s.onMessage.eventqueue, m)[n] = s.onMessage.eventqueue[n]
    <2>1. s.messages \in Seq(Numbers) /\ s.onMessage.eventqueue \in Seq(Numbers)
      BY ViewParts
    <2>2. m \in Numbers
      BY <1>1, BoundsAssumption DEF Numbers
    <2> HIDE DEF m
    <2>3. ASSUME NEW q \in Seq(Numbers)
          PROVE  /\ Len(q) \in Nat /\ Len(Append(q, m)) = Len(q) + 1
                 /\ Append(q, m)[Len(q) + 1] = m
                 /\ \A n \in 1..Len(q) : Append(q, m)[n] = q[n]
      BY <2>2, Appended
    <2> QED BY <2>1, <2>3
  <1>15. L \in Nat
    BY <1>3
  <1>4. y.decrypting = v.decrypting \cup (IF d THEN {m} ELSE {})
        /\ y.cards = v.cards /\ y.self = v.self /\ y.page = v.page
    BY DEF PushedTo
  <1>5. \A k \in 1..Len(v.sessions) : \A j \in Places(v, k) : At(v, k, j) \in 1..Len(v.messages)
    BY Within
  <1> HIDE DEF m
  \* The places of y.
  <1>6. ASSUME NEW k \in 1..Len(v.sessions), NEW j \in Places(y, k)
        PROVE  \/ k = i /\ j = L + 1 /\ At(y, k, j) = m
               \/ j \in Places(v, k) /\ At(y, k, j) = At(v, k, j)
    <2>1. CASE k # i
      BY <2>1, <1>2, <1>6 DEF Places, At
    <2>2. CASE k = i
      <3>1. Places(y, k) = 1..(L + 1) /\ Places(v, k) = 1..L
        BY <2>2, <1>2, <1>3 DEF Places
      <3>2. j \in 1..L \/ j = L + 1
        <4>1. j \in 1..(L + 1)
          BY <3>1, <1>6
        <4> HIDE DEF L
        <4> QED BY <4>1, <1>15
      <3>3. At(y, k, j) = Append(s.messages, m)[j] /\ At(v, k, j) = s.messages[j]
        BY <2>2, <1>2 DEF At
      <3> QED BY <2>2, <3>1, <3>2, <3>3, <1>3
    <2> QED BY <2>1, <2>2
  <1>7. ASSUME NEW k \in 1..Len(v.sessions), NEW j \in Places(v, k)
        PROVE  j \in Places(y, k) /\ At(y, k, j) = At(v, k, j)
    <2>1. CASE k # i
      BY <2>1, <1>2, <1>7 DEF Places, At
    <2>2. CASE k = i
      <3>1. Places(y, k) = 1..(L + 1) /\ Places(v, k) = 1..L
        BY <2>2, <1>2, <1>3 DEF Places
      <3>2. j \in 1..L /\ j \in 1..(L + 1)
        BY <3>1, <1>3, <1>7
      <3>3. At(y, k, j) = Append(s.messages, m)[j] /\ At(v, k, j) = s.messages[j]
        BY <2>2, <1>2 DEF At
      <3> QED BY <2>2, <3>1, <3>2, <3>3, <1>3
    <2> QED BY <2>1, <2>2
  <1> HIDE DEF L
  <1>8. CalmSessions(v, me) /\ CalmMessages(v, me) /\ CalmCards(v) /\ y.self = TRUE
        /\ y.page # "crashed"
    BY <1>4 DEF Calm
  <1>9. CalmSessions(y, me)
    <2> SUFFICES ASSUME NEW k \in 1..Len(v.sessions)
                 PROVE  /\ y.sessions[k].owner = me
                        /\ y.sessions[k].onMessage.listener # None =>
                             y.sessions[k].onMessage.eventqueue = << >>
                        /\ \A l \in 1..Len(v.sessions) : \A j \in Places(y, k), n \in Places(y, l) :
                             At(y, k, j) = At(y, l, n) => k = l /\ j = n
                        /\ \A j \in Places(y, k) :
                             \/ y.messages[At(y, k, j)].body \/ At(y, k, j) \in y.decrypting
                             \/ \E n \in 1..Len(y.sessions[k].onMessage.eventqueue) :
                                  y.sessions[k].onMessage.eventqueue[n] = At(y, k, j)
      BY <1>1 DEF CalmSessions
    <2>1. y.sessions[k].owner = me
          /\ (y.sessions[k].onMessage.listener # None => y.sessions[k].onMessage.eventqueue = << >>)
      <3>1. /\ v.sessions[k].owner = me
            /\ v.sessions[k].onMessage.listener # None =>
                 v.sessions[k].onMessage.eventqueue = << >>
        BY <1>8 DEF CalmSessions
      <3>2. CASE k # i
        BY <3>1, <3>2, <1>2
      <3>3. CASE k = i
        BY <3>1, <3>3, <1>2
      <3> QED BY <3>2, <3>3
    <2>2. ASSUME NEW l \in 1..Len(v.sessions), NEW j \in Places(y, k), NEW n \in Places(y, l),
                 At(y, k, j) = At(y, l, n)
          PROVE  k = l /\ j = n
      <3>1. CASE At(y, k, j) = m
        BY <3>1, <2>2, <1>1, <1>5, <1>6
      <3>2. CASE At(y, k, j) # m
        <4>1. j \in Places(v, k) /\ n \in Places(v, l) /\ At(v, k, j) = At(v, l, n)
          BY <3>2, <2>2, <1>6
        <4> QED BY <4>1, <1>8 DEF CalmSessions
      <3> QED BY <3>1, <3>2
    <2>3. ASSUME NEW j \in Places(y, k)
          PROVE  \/ y.messages[At(y, k, j)].body \/ At(y, k, j) \in y.decrypting
                 \/ \E n \in 1..Len(y.sessions[k].onMessage.eventqueue) :
                      y.sessions[k].onMessage.eventqueue[n] = At(y, k, j)
      <3>1. CASE k = i /\ At(y, k, j) = m
        <4>1. CASE d
          BY <3>1, <4>1, <1>4
        <4>2. CASE from # 0
          BY <3>1, <4>2, <1>1
        <4>3. CASE s.onMessage.listener = None
          <5>1. Len(s.onMessage.eventqueue) + 1 \in 1..Len(y.sessions[k].onMessage.eventqueue)
                /\ y.sessions[k].onMessage.eventqueue[Len(s.onMessage.eventqueue) + 1] = m
            <6>1. y.sessions[i].onMessage.eventqueue = Append(s.onMessage.eventqueue, m)
              BY <4>3, <1>2
            <6>2. k = i
              BY <3>1
            <6>3. Len(s.onMessage.eventqueue) + 1 \in 1..(Len(s.onMessage.eventqueue) + 1)
              BY SMTT(40), <1>3
            <6>4. /\ Len(Append(s.onMessage.eventqueue, m)) = Len(s.onMessage.eventqueue) + 1
                  /\ Append(s.onMessage.eventqueue, m)[Len(s.onMessage.eventqueue) + 1] = m
              BY <1>3
            <6> HIDE DEF m, s
            <6> QED BY <6>1, <6>2, <6>3, <6>4
          <5> QED BY <3>1, <5>1
        <4> QED BY <4>1, <4>2, <4>3
      <3>2. CASE j \in Places(v, k) /\ At(y, k, j) = At(v, k, j)
        <4>1. At(v, k, j) \in 1..Len(v.messages)
          BY <3>2, <1>5
        <4>2. \/ v.messages[At(v, k, j)].body \/ At(v, k, j) \in v.decrypting
              \/ \E n \in 1..Len(v.sessions[k].onMessage.eventqueue) :
                   v.sessions[k].onMessage.eventqueue[n] = At(v, k, j)
          BY <3>2, <1>8 DEF CalmSessions
        <4>3. ASSUME NEW n \in 1..Len(v.sessions[k].onMessage.eventqueue)
              PROVE  n \in 1..Len(y.sessions[k].onMessage.eventqueue)
                     /\ y.sessions[k].onMessage.eventqueue[n] =
                          v.sessions[k].onMessage.eventqueue[n]
          <5>1. CASE k # i \/ s.onMessage.listener # None
            <6>1. y.sessions[k].onMessage.eventqueue = v.sessions[k].onMessage.eventqueue
              BY <5>1, <1>2
            <6> QED BY <6>1
          <5>2. CASE k = i /\ s.onMessage.listener = None
            <6>1. y.sessions[k].onMessage.eventqueue = Append(s.onMessage.eventqueue, m)
              BY <5>2, <1>2
            <6>2. n \in 1..Len(s.onMessage.eventqueue)
              BY <5>2, <4>3
            <6>3. n \in 1..(Len(s.onMessage.eventqueue) + 1)
              BY SMTT(30), <6>2, <1>3
            <6> QED BY <5>2, <6>1, <6>2, <6>3, <1>3
          <5> QED BY <5>1, <5>2
        <4> QED BY <3>2, <4>1, <4>2, <4>3, <1>1, <1>4
      <3> QED BY <3>1, <3>2, <1>6
    <2> QED BY <2>1, <2>2, <2>3
  <1>10. CalmMessages(y, me)
    <2> SUFFICES ASSUME NEW k \in 1..m
                 PROVE  /\ y.messages[k].from \in {0, me}
                        /\ y.messages[k].from = 0 => y.messages[k].state = "none"
                        /\ y.messages[k].from # 0 => y.messages[k].body
      BY <1>1 DEF CalmMessages
    <2>1. CASE k = m
      BY <2>1, <1>1
    <2>2. CASE k \in 1..Len(v.messages)
      BY <2>2, <1>1, <1>8 DEF CalmMessages
    <2> QED BY <2>1, <2>2, <1>1
  <1>11. CalmCards(y)
    <2>1. \A k \in 1..Len(v.messages) : Own(y, k) <=> Own(v, k)
      BY <1>1 DEF Own
    <2>2. ASSUME NEW j \in 1..Len(v.cards)
          PROVE  /\ y.cards[j].state = y.messages[y.cards[j].mounted].state
                 /\ Own(y, y.cards[j].mounted) =>
                      y.messages[y.cards[j].mounted].onStateChange.listener = j
                 /\ \E k \in 1..Len(y.sessions) :
                      j \in Places(y, k) /\ At(y, k, j) = y.cards[j].mounted
      <3>1. v.cards[j].mounted \in 1..Len(v.messages)
        BY Within
      <3>2. /\ v.cards[j].state = v.messages[v.cards[j].mounted].state
            /\ Own(v, v.cards[j].mounted) =>
                 v.messages[v.cards[j].mounted].onStateChange.listener = j
            /\ \E k \in 1..Len(v.sessions) :
                 j \in Places(v, k) /\ At(v, k, j) = v.cards[j].mounted
        BY <1>8 DEF CalmCards
      <3>3. PICK n \in 1..Len(v.messages) : n = v.cards[j].mounted
        BY <3>1
      <3>4. y.cards[j].mounted = n /\ y.cards[j].state = v.cards[j].state
            /\ y.messages[n] = v.messages[n] /\ (Own(y, n) <=> Own(v, n))
        BY <3>3, <2>1, <1>1, <1>4
      <3>5. \E k \in 1..Len(y.sessions) : j \in Places(y, k) /\ At(y, k, j) = n
        BY <3>2, <3>3, <1>1, <1>7
      <3> QED BY <3>2, <3>3, <3>4, <3>5
    <2>3. ASSUME NEW n \in 1..m
          PROVE  LET l == y.messages[n].onStateChange.listener
                 IN  l \in {None, NoCard} \/ (l \in 1..Len(y.cards) /\ y.cards[l].mounted = n)
      <3>1. CASE n = m
        BY <3>1, <1>1
      <3>2. CASE n \in 1..Len(v.messages)
        <4>1. y.messages[n].onStateChange.listener = v.messages[n].onStateChange.listener
              /\ y.cards = v.cards
          BY <3>2, <1>1, <1>4
        <4>2. LET l == v.messages[n].onStateChange.listener
              IN  l \in {None, NoCard} \/ (l \in 1..Len(v.cards) /\ v.cards[l].mounted = n)
          BY <3>2, <1>8 DEF CalmCards
        <4> QED BY <4>1, <4>2
      <3> QED BY <3>1, <3>2, <1>1
    <2> QED BY <2>2, <2>3, <1>1, <1>4 DEF CalmCards
  <1> QED BY <1>8, <1>9, <1>10, <1>11 DEF Calm

LEMMA PushedShown ==
  ASSUME NEW v, ViewOK(v), NEW i \in 1..Len(v.sessions), NEW from, NEW st, NEW d \in BOOLEAN,
         Len(v.messages) < MaxMessages, NEW y, PushedTo(v, y, i, from, st, d),
         Shown(v), d \/ v.sessions[i].onMessage.listener = None
  PROVE  Shown(y)
  <1> DEFINE a == v.active
             m == Len(v.messages) + 1
  <1> SUFFICES ASSUME Mounted(v), a # 0
               PROVE  /\ y.sessions[a].onMessage.listener = "ChatSession"
                      /\ \A j \in Places(y, a) :
                           \/ At(y, a, j) \in y.decrypting
                           \/ j <= Len(v.cards) /\ v.cards[j].message = At(y, a, j)
    BY DEF PushedTo, Shown, Mounted
  <1>1. a \in 1..Len(v.sessions)
    BY ViewParts
  <1>2. /\ v.sessions[a].onMessage.listener = "ChatSession"
        /\ \A j \in Places(v, a) :
             \/ At(v, a, j) \in v.decrypting
             \/ j <= Len(v.cards) /\ v.cards[j].message = At(v, a, j)
    BY DEF Shown
  <1>3. v.decrypting \subseteq y.decrypting
    BY DEF PushedTo
  <1>4. CASE a # i
    <2>1. y.sessions[a] = v.sessions[a]
      BY <1>1, <1>4 DEF PushedTo
    <2> QED BY <2>1, <1>2, <1>3 DEF Places, At
  <1>5. CASE a = i
    <2>1. d
      BY <1>2, <1>5, NoneAssumption
    <2>2. m \in y.decrypting /\ y.sessions[a].messages = Append(v.sessions[a].messages, m)
          /\ y.sessions[a].onMessage.listener = v.sessions[a].onMessage.listener
      BY <1>5, <2>1 DEF PushedTo
    <2>3. v.sessions[a].messages \in Seq(Numbers) /\ m \in Numbers
      BY <1>1, ViewParts, BoundsAssumption DEF Numbers
    <2> DEFINE ms == v.sessions[a].messages
    <2> HIDE DEF m
    <2>4. /\ Len(ms) \in Nat /\ Len(Append(ms, m)) = Len(ms) + 1
          /\ Append(ms, m)[Len(ms) + 1] = m
          /\ \A n \in 1..Len(ms) : Append(ms, m)[n] = ms[n]
      <3>1. ASSUME NEW q \in Seq(Numbers)
            PROVE  /\ Len(q) \in Nat /\ Len(Append(q, m)) = Len(q) + 1
                   /\ Append(q, m)[Len(q) + 1] = m
                   /\ \A n \in 1..Len(q) : Append(q, m)[n] = q[n]
        BY <2>3, Appended
      <3> QED BY <2>3, <3>1
    <2>6. Len(ms) \in Nat
      BY <2>4
    <2>5. ASSUME NEW j \in 1..(Len(ms) + 1)
          PROVE  \/ Append(ms, m)[j] \in y.decrypting
                 \/ j <= Len(v.cards) /\ v.cards[j].message = Append(ms, m)[j]
      <3>1. j \in 1..Len(ms) \/ j = Len(ms) + 1
        BY <2>6
      <3>2. CASE j \in 1..Len(ms)
        BY <3>2, <2>4, <1>2, <1>3 DEF Places, At
      <3>3. CASE j = Len(ms) + 1
        BY <3>3, <2>2, <2>4
      <3> QED BY <3>1, <3>2, <3>3
    <2> QED BY <2>2, <2>4, <2>5, <1>2 DEF Places, At
  <1> QED BY <1>4, <1>5

\* A message is pushed, and its event triggered.
LEMMA MessageAddedKeeps ==
  ASSUME NEW v, ViewOK(v), NEW i \in 1..Len(v.sessions), NEW from \in Owners,
         NEW st \in MsgState, Len(v.messages) < MaxMessages
  PROVE  LET w == MessageAdded(v, i, from, st) IN
         /\ ViewOK(w)
         /\ w.requests = v.requests /\ w.missed = v.missed
         /\ w.onNewSession = v.onNewSession /\ w.onContactRequest = v.onContactRequest
         /\ Len(w.sessions) = Len(v.sessions) /\ w.shown = v.shown /\ w.active = v.active
         /\ \A me : Calm(v, me) /\ Shown(v) /\ from \in {0, me} /\ (from = 0 => st = "none")
              => Calm(w, me) /\ Shown(w) /\ w.page = v.page
  <1> DEFINE w == MessageAdded(v, i, from, st)
             m == Len(v.messages) + 1
             s == v.sessions[i]
             d == from = 0 /\ s.onMessage.listener # None
             x == [v EXCEPT !.messages = Append(@, NewMessage(from, st)),
                            !.sessions[i].messages = Append(@, m),
                            !.sessions[i].onMessage = E!Trigger(@, m)]
             y == [v EXCEPT !.messages = Append(@, NewMessage(from, st)),
                            !.sessions[i].messages = Append(@, m),
                            !.sessions[i].onMessage = E!Trigger(@, m),
                            !.decrypting = @ \cup (IF d THEN {m} ELSE {})]
  <1>1. w = IF E!Dispatched(s.onMessage, m) = << >> THEN x
            ELSE IF from = 0 THEN [x EXCEPT !.decrypting = @ \cup {m}] ELSE Drawn(x)
    BY DEF MessageAdded
  <1>2. E!Dispatched(s.onMessage, m) = << >> <=> s.onMessage.listener = None
    <2>1. <<m>> # << >>
      OBVIOUS
    <2> QED BY <2>1, Triggers
  <1>3. v \in Views
    BY DEF ViewOK
  <1>4. y \in Views /\ PushedTo(v, y, i, from, st, d)
    BY PushedTyped
  <1>5. ~d => y = x
    BY ZenonT(60), <1>3 DEF Views
  <1>6. d => y = [x EXCEPT !.decrypting = @ \cup {m}]
    BY <1>3 DEF Views
  <1> HIDE DEF w, x, y, d
  <1>7. d \in BOOLEAN
    BY DEF d
  <1>8. ViewOK(y)
    BY <1>4, <1>7, PushedInRange DEF ViewOK
  <1>9. w = IF from # 0 /\ s.onMessage.listener # None THEN Drawn(y) ELSE y
    BY <1>1, <1>2, <1>5, <1>6 DEF d
  <1>10. \A me : Calm(v, me) /\ from \in {0, me} /\ (from = 0 => st = "none") => Calm(y, me)
    BY <1>4, <1>7, PushedCalm DEF d
  <1>11. Shown(v) /\ (d \/ s.onMessage.listener = None) => Shown(y)
    BY <1>4, <1>7, PushedShown
  <1>12. /\ y.requests = v.requests /\ y.missed = v.missed
         /\ y.onNewSession = v.onNewSession /\ y.onContactRequest = v.onContactRequest
         /\ Len(y.sessions) = Len(v.sessions) /\ y.shown = v.shown /\ y.active = v.active
         /\ y.page = v.page
    BY <1>4 DEF PushedTo
  <1>13. CASE from # 0 /\ s.onMessage.listener # None
    <2>1. w = Drawn(y)
      BY <1>9, <1>13
    <2>2. /\ ViewOK(w) /\ Kept(y, w) /\ w.shown = y.shown /\ w.active = y.active
          /\ \A me : Calm(y, me) => Calm(w, me) /\ Shown(w) /\ w.page = y.page
      BY <2>1, <1>8, DrawnKeeps
    <2> QED BY <2>2, <1>10, <1>12 DEF Kept, w
  <1>14. CASE ~(from # 0 /\ s.onMessage.listener # None)
    <2>1. w = y /\ (d \/ s.onMessage.listener = None)
      BY <1>9, <1>14 DEF d
    <2> QED BY <2>1, <1>8, <1>10, <1>11, <1>12 DEF w
  <1> QED BY <1>13, <1>14

\* What is said of views that differ in one message only: y has another state, text
\* or trigger of m.
LEMMA OneMessage ==
  ASSUME NEW v, ViewOK(v), NEW m \in 1..Len(v.messages), NEW x \in Messages, NEW y,
         y \in Views, y.messages = [v.messages EXCEPT ![m] = x],
         y.sessions = v.sessions, y.onNewSession = v.onNewSession, y.shown = v.shown,
         y.active = v.active, y.decrypting \subseteq v.decrypting,
         Len(y.cards) = Len(v.cards),
         \A j \in 1..Len(v.cards) :
           y.cards[j].mounted = v.cards[j].mounted /\ y.cards[j].message = v.cards[j].message
  PROVE  /\ ViewOK(y) /\ Len(y.messages) = Len(v.messages) /\ y.messages[m] = x
         /\ \A k \in 1..Len(v.messages) : k # m => y.messages[k] = v.messages[k]
  <1>1. /\ Len(y.messages) = Len(v.messages) /\ y.messages[m] = x
        /\ \A k \in 1..Len(v.messages) : k # m => y.messages[k] = v.messages[k]
    <2>1. v.messages \in Seq(Messages)
      BY ViewParts
    <2> QED BY <2>1
  <1>2. InRange(y)
    BY <1>1 DEF ViewOK, InRange
  <1> QED BY <1>1, <1>2 DEF ViewOK

\* A message has been decrypted, or could not be.
LEMMA DecryptedKeeps ==
  ASSUME ViewOK(view), NEW m \in view.decrypting, NEW right \in BOOLEAN, Decrypted(m, right)
  PROVE  /\ ViewOK(view') /\ Kept(view, view')
         /\ view'.shown = view.shown /\ view'.active = view.active
         /\ \A me : right /\ Calm(view, me) /\ Shown(view) =>
              Calm(view', me) /\ Shown(view') /\ view'.page = view.page
  <1> DEFINE w == [view EXCEPT !.decrypting = @ \ {m}]
             y == [w EXCEPT !.messages[m].body = TRUE]
             x == [view.messages[m] EXCEPT !.body = TRUE]
  <1>1. view' = IF right THEN Drawn(y) ELSE w
    BY DEF Decrypted
  <1>2. view \in Views /\ m \in 1..Len(view.messages) /\ view.messages \in Seq(Messages)
        /\ view.messages[m] \in Messages
    BY Within, ViewParts DEF ViewOK
  <1>3. x \in Messages /\ x.from = view.messages[m].from /\ x.state = view.messages[m].state
        /\ x.body = TRUE /\ x.onStateChange = view.messages[m].onStateChange
    BY <1>2 DEF Messages
  <1>4. CASE ~right
    <2>1. view' = w
      BY <1>1, <1>4
    <2>2. /\ w.sessions = view.sessions /\ w.messages = view.messages
          /\ w.decrypting = view.decrypting \ {m} /\ w.cards = view.cards
          /\ w.shown = view.shown /\ w.active = view.active /\ Kept(view, w)
      BY <1>2 DEF Views, Kept
    <2>3. w \in Views
      BY <1>2 DEF Views
    <2> HIDE DEF w
    <2>4. InRange(w)
      BY <2>2 DEF ViewOK, InRange, Kept
    <2> QED BY <1>4, <2>1, <2>2, <2>3, <2>4 DEF ViewOK
  <1>5. CASE right
    <2>1. view' = Drawn(y)
      BY <1>1, <1>5
    <2>2. /\ y.sessions = view.sessions /\ y.messages = [view.messages EXCEPT ![m] = x]
          /\ y.decrypting = view.decrypting \ {m} /\ y.cards = view.cards
          /\ y.shown = view.shown /\ y.active = view.active /\ y.self = view.self
          /\ y.page = view.page
          /\ y.requests = view.requests /\ y.missed = view.missed
          /\ y.onNewSession = view.onNewSession /\ y.onContactRequest = view.onContactRequest
      BY <1>2 DEF Views
    <2>3. y \in Views
      <3>1. [view.messages EXCEPT ![m] = x] \in Seq(Messages)
        BY <1>2, <1>3
      <3> HIDE DEF x
      <3> QED BY <1>2, <2>2, <3>1 DEF Views
    <2> HIDE DEF y, x
    <2>4. /\ ViewOK(y) /\ Len(y.messages) = Len(view.messages) /\ y.messages[m] = x
          /\ \A k \in 1..Len(view.messages) : k # m => y.messages[k] = view.messages[k]
      BY <1>2, <1>3, <2>2, <2>3, OneMessage
    <2>5. Kept(view, y)
      BY <2>2, <2>4 DEF Kept
    <2>6. ASSUME NEW me, Calm(view, me) PROVE Calm(y, me)
      <3>1. \A k \in 1..Len(view.messages) :
              /\ y.messages[k].from = view.messages[k].from
              /\ y.messages[k].state = view.messages[k].state
              /\ y.messages[k].body = (k = m \/ view.messages[k].body)
              /\ y.messages[k].onStateChange = view.messages[k].onStateChange
              /\ k \in view.decrypting => k = m \/ k \in y.decrypting
              /\ Own(y, k) <=> Own(view, k)
        <4> SUFFICES ASSUME NEW k \in 1..Len(view.messages)
                     PROVE  /\ y.messages[k].from = view.messages[k].from
                            /\ y.messages[k].state = view.messages[k].state
                            /\ y.messages[k].body = (k = m \/ view.messages[k].body)
                            /\ y.messages[k].onStateChange = view.messages[k].onStateChange
                            /\ k \in view.decrypting => k = m \/ k \in y.decrypting
          BY DEF Own
        <4>1. view.messages[k].body \in BOOLEAN
          BY ViewParts DEF Messages
        <4>2. CASE k = m
          BY <4>2, <1>3, <2>4
        <4>3. CASE k # m
          BY <4>1, <4>3, <2>2, <2>4
        <4> QED BY <4>2, <4>3
      <3>2. CalmSessions(view, me) /\ CalmMessages(view, me) /\ CalmCards(view)
            /\ y.self = TRUE /\ y.page # "crashed"
        BY <2>2, <2>6 DEF Calm
      <3>3. \A i, j : At(y, i, j) = At(view, i, j) /\ Places(y, i) = Places(view, i)
        BY <2>2 DEF At, Places
      <3>4. \A i \in 1..Len(view.sessions) : \A j \in Places(view, i) :
              At(view, i, j) \in 1..Len(view.messages)
        BY Within
      <3>5. CalmSessions(y, me)
        <4> SUFFICES ASSUME NEW i \in 1..Len(view.sessions)
                     PROVE  /\ view.sessions[i].owner = me
                            /\ view.sessions[i].onMessage.listener # None =>
                                 view.sessions[i].onMessage.eventqueue = << >>
                            /\ \A k \in 1..Len(view.sessions) :
                                 \A j \in Places(view, i), l \in Places(view, k) :
                                   At(view, i, j) = At(view, k, l) => i = k /\ j = l
                            /\ \A j \in Places(view, i) :
                                 \/ y.messages[At(view, i, j)].body
                                 \/ At(view, i, j) \in y.decrypting
                                 \/ \E n \in 1..Len(view.sessions[i].onMessage.eventqueue) :
                                      view.sessions[i].onMessage.eventqueue[n] = At(view, i, j)
          BY <2>2, <3>3 DEF CalmSessions
        <4>1. ASSUME NEW j \in Places(view, i)
              PROVE  \/ y.messages[At(view, i, j)].body
                     \/ At(view, i, j) \in y.decrypting
                     \/ \E n \in 1..Len(view.sessions[i].onMessage.eventqueue) :
                          view.sessions[i].onMessage.eventqueue[n] = At(view, i, j)
          <5>1. PICK k \in 1..Len(view.messages) : k = At(view, i, j)
            BY <3>4
          <5>2. \/ view.messages[k].body \/ k \in view.decrypting
                \/ \E n \in 1..Len(view.sessions[i].onMessage.eventqueue) :
                     view.sessions[i].onMessage.eventqueue[n] = k
            BY <5>1, <3>2 DEF CalmSessions
          <5> QED BY <5>1, <5>2, <3>1
        <4> QED BY <4>1, <3>2 DEF CalmSessions
      <3>6. CalmMessages(y, me)
        BY <2>4, <3>1, <3>2 DEF CalmMessages
      <3>7. CalmCards(y)
        <4>1. \A j \in 1..Len(view.cards) : view.cards[j].mounted \in 1..Len(view.messages)
          BY Within
        <4>2. ASSUME NEW j \in 1..Len(view.cards)
              PROVE  /\ y.cards[j].state = y.messages[y.cards[j].mounted].state
                     /\ Own(y, y.cards[j].mounted) =>
                          y.messages[y.cards[j].mounted].onStateChange.listener = j
                     /\ \E i \in 1..Len(y.sessions) :
                          j \in Places(y, i) /\ At(y, i, j) = y.cards[j].mounted
          <5>1. PICK n \in 1..Len(view.messages) : n = view.cards[j].mounted
            BY <4>1
          <5>2. /\ view.cards[j].state = view.messages[n].state
                /\ Own(view, n) => view.messages[n].onStateChange.listener = j
                /\ \E i \in 1..Len(view.sessions) : j \in Places(view, i) /\ At(view, i, j) = n
            BY <5>1, <3>2 DEF CalmCards
          <5> QED BY <5>1, <5>2, <2>2, <3>1, <3>3
        <4>3. ASSUME NEW n \in 1..Len(view.messages)
              PROVE  LET l == y.messages[n].onStateChange.listener
                     IN  l \in {None, NoCard} \/ (l \in 1..Len(y.cards) /\ y.cards[l].mounted = n)
          <5>1. y.messages[n].onStateChange.listener = view.messages[n].onStateChange.listener
                /\ y.cards = view.cards
            BY <2>2, <3>1
          <5>2. LET l == view.messages[n].onStateChange.listener
                IN  \/ l \in {None, NoCard}
                    \/ l \in 1..Len(view.cards) /\ view.cards[l].mounted = n
            BY <3>2 DEF CalmCards
          <5> QED BY <5>1, <5>2
        <4> QED BY <2>2, <2>4, <4>2, <4>3 DEF CalmCards
      <3> QED BY <3>2, <3>5, <3>6, <3>7 DEF Calm
    <2>7. /\ ViewOK(Drawn(y)) /\ Kept(y, Drawn(y)) /\ Drawn(y).shown = y.shown
          /\ Drawn(y).active = y.active
          /\ \A me : Calm(y, me) => Calm(Drawn(y), me) /\ Shown(Drawn(y)) /\ Drawn(y).page = y.page
      BY <2>4, DrawnKeeps
    <2> QED BY <2>1, <2>2, <2>5, <2>6, <2>7 DEF Kept
  <1> QED BY <1>4, <1>5

\* The fate of a text is known.
LEMMA SettleKeeps ==
  ASSUME ViewOK(view), NEW m \in 1..Len(view.messages), NEW st \in MsgState, Settle(m, st)
  PROVE  /\ ViewOK(view') /\ Kept(view, view')
         /\ view'.shown = view.shown /\ view'.active = view.active /\ view'.page = view.page
         /\ \A me : Calm(view, me) => Calm(view', me)
         /\ Shown(view) => Shown(view')
  <1> DEFINE t == view.messages[m].onStateChange
             l == t.listener
             u == E!Trigger(t, st)
             w == [view EXCEPT !.messages[m].state = st,
                               !.messages[m].onStateChange = E!Trigger(@, st)]
             x == [view.messages[m] EXCEPT !.state = st, !.onStateChange = u]
             y == IF l \in DOMAIN view.cards THEN [w EXCEPT !.cards[l].state = st] ELSE w
  <1>1. view' = y /\ view.messages[m].state = "pending"
    BY DEF Settle
  <1>2. view \in Views /\ view.messages \in Seq(Messages) /\ view.messages[m] \in Messages
        /\ view.cards \in Seq(CardSet) /\ DOMAIN view.cards = 1..Len(view.cards)
        /\ \A j \in 1..Len(view.cards) : view.cards[j] \in CardSet
        /\ DOMAIN view.messages = 1..Len(view.messages)
    BY ViewParts DEF ViewOK
  <1>3. /\ t = [listener |-> t.listener, eventqueue |-> t.eventqueue]
        /\ t.eventqueue \in Seq(MsgState) /\ l \in {None} \cup (NoCard..MaxMessages)
    BY <1>2 DEF Messages
  <1>4. /\ u = [listener |-> u.listener, eventqueue |-> u.eventqueue]
        /\ u.listener = l /\ u.eventqueue \in Seq(MsgState)
    <2> HIDE DEF t
    <2> QED BY <1>3, Triggered
  <1>5. x \in Messages /\ x.from = view.messages[m].from /\ x.state = st
        /\ x.body = view.messages[m].body /\ x.onStateChange.listener = l
    <2>1. u \in [listener : {None} \cup (NoCard..MaxMessages), eventqueue : Seq(MsgState)]
      <3> HIDE DEF u, l
      <3> QED BY <1>3, <1>4
    <2> HIDE DEF u
    <2> QED BY <1>2, <1>4, <2>1 DEF Messages
  <1>6. /\ y.sessions = view.sessions /\ y.messages = [view.messages EXCEPT ![m] = x]
        /\ y.decrypting = view.decrypting
        /\ y.shown = view.shown /\ y.active = view.active /\ y.self = view.self
        /\ y.page = view.page
        /\ y.requests = view.requests /\ y.missed = view.missed
        /\ y.onNewSession = view.onNewSession /\ y.onContactRequest = view.onContactRequest
        /\ y.cards = IF l \in DOMAIN view.cards THEN [view.cards EXCEPT ![l].state = st]
                     ELSE view.cards
    <2> DEFINE mm == [view.messages EXCEPT ![m].state = st,
                                           ![m].onStateChange = E!Trigger(@, st)]
    <2>1. mm = [view.messages EXCEPT ![m] = x]
      BY <1>2 DEF Messages
    <2>2. /\ w.sessions = view.sessions /\ w.messages = mm
          /\ w.decrypting = view.decrypting
          /\ w.shown = view.shown /\ w.active = view.active /\ w.self = view.self
          /\ w.page = view.page
          /\ w.requests = view.requests /\ w.missed = view.missed
          /\ w.onNewSession = view.onNewSession /\ w.onContactRequest = view.onContactRequest
          /\ w.cards = view.cards
      BY <1>2 DEF Views
    <2>3. w \in Views
      <3>1. mm \in Seq(Messages)
        <4> HIDE DEF x, mm
        <4> QED BY <1>2, <1>5, <2>1
      <3> HIDE DEF mm
      <3> QED BY <1>2, <2>2, <3>1 DEF Views
    <2> HIDE DEF w, mm, x, l
    <2>4. CASE l \in DOMAIN view.cards
      BY <2>1, <2>2, <2>3, <2>4 DEF Views
    <2>5. CASE l \notin DOMAIN view.cards
      BY <2>1, <2>2, <2>5
    <2> QED BY <2>4, <2>5
  <1>7. /\ y.cards \in Seq(CardSet) /\ Len(y.cards) = Len(view.cards)
        /\ \A j \in 1..Len(view.cards) :
             /\ y.cards[j].mounted = view.cards[j].mounted
             /\ y.cards[j].message = view.cards[j].message
             /\ y.cards[j].state = IF j = l THEN st ELSE view.cards[j].state
    <2>1. CASE l \in 1..Len(view.cards)
      <3> DEFINE c == [view.cards[l] EXCEPT !.state = st]
      <3>1. c \in CardSet /\ c.mounted = view.cards[l].mounted
            /\ c.message = view.cards[l].message /\ c.state = st
        BY <2>1, <1>2 DEF CardSet
      <3>2. y.cards = [view.cards EXCEPT ![l] = c]
        BY <2>1, <1>2, <1>6
      <3> HIDE DEF c, y, l
      <3> QED BY <2>1, <3>1, <3>2, <1>2
    <2>2. CASE l \notin 1..Len(view.cards)
      <3> HIDE DEF y, l
      <3> QED BY <2>2, <1>2, <1>6
    <2> QED BY <2>1, <2>2
  <1>8. y \in Views
    <2>1. [view.messages EXCEPT ![m] = x] \in Seq(Messages)
      <3> HIDE DEF x
      <3> QED BY <1>2, <1>5
    <2>2. w \in Views
      BY <1>2, <1>6, <2>1 DEF Views, Messages
    <2> HIDE DEF w
    <2> QED BY <2>2, <1>7 DEF Views
  <1> HIDE DEF y, x, u, t
  <1>9. /\ ViewOK(y) /\ Len(y.messages) = Len(view.messages) /\ y.messages[m] = x
        /\ \A k \in 1..Len(view.messages) : k # m => y.messages[k] = view.messages[k]
    <2>1. y.decrypting \subseteq view.decrypting /\ y.onNewSession = view.onNewSession
          /\ y.messages = [view.messages EXCEPT ![m] = x] /\ y.sessions = view.sessions
          /\ y.shown = view.shown /\ y.active = view.active
      BY <1>6
    <2>2. \A j \in 1..Len(view.cards) :
            y.cards[j].mounted = view.cards[j].mounted /\ y.cards[j].message = view.cards[j].message
      BY <1>7
    <2>3. x \in Messages /\ y \in Views /\ Len(y.cards) = Len(view.cards)
      BY <1>5, <1>7, <1>8
    <2> QED BY <2>1, <2>2, <2>3, OneMessage
  <1>10. Kept(view, y)
    BY <1>6, <1>9 DEF Kept
  <1> HIDE DEF l
  <1>11. ASSUME NEW me, Calm(view, me) PROVE Calm(y, me)
    <2>1. \A k \in 1..Len(view.messages) :
            /\ y.messages[k].from = view.messages[k].from
            /\ y.messages[k].state = IF k = m THEN st ELSE view.messages[k].state
            /\ y.messages[k].body = view.messages[k].body
            /\ y.messages[k].onStateChange.listener = view.messages[k].onStateChange.listener
            /\ Own(y, k) <=> Own(view, k)
      <3>1. l = view.messages[m].onStateChange.listener
        BY DEF l, t
      <3> SUFFICES ASSUME NEW k \in 1..Len(view.messages)
                   PROVE  /\ y.messages[k].from = view.messages[k].from
                          /\ y.messages[k].state = IF k = m THEN st ELSE view.messages[k].state
                          /\ y.messages[k].body = view.messages[k].body
                          /\ y.messages[k].onStateChange.listener =
                               view.messages[k].onStateChange.listener
        BY DEF Own
      <3>2. CASE k = m
        BY <3>1, <3>2, <1>5, <1>9
      <3>3. CASE k # m
        BY <3>3, <1>9
      <3> QED BY <3>2, <3>3
    <2>2. CalmSessions(view, me) /\ CalmMessages(view, me) /\ CalmCards(view)
          /\ y.self = TRUE /\ y.page # "crashed"
      BY <1>6, <1>11 DEF Calm
    <2>3. \A i, j : At(y, i, j) = At(view, i, j) /\ Places(y, i) = Places(view, i)
      BY <1>6 DEF At, Places
    <2>4. \A i \in 1..Len(view.sessions) : \A j \in Places(view, i) :
            At(view, i, j) \in 1..Len(view.messages)
      BY Within
    <2>5. CalmSessions(y, me)
      BY SMTT(30), <1>6, <2>1, <2>2, <2>3, <2>4 DEF CalmSessions
    <2>6. Own(view, m)
      <3>1. view.messages[m].from = 0 => view.messages[m].state = "none"
        BY <2>2 DEF CalmMessages
      <3> QED BY <3>1, <1>1 DEF Own
    <2>7. CalmMessages(y, me)
      BY <1>9, <2>1, <2>2, <2>6 DEF CalmMessages, Own
    <2>8. CalmCards(y)
      <3>1. \A n \in 1..Len(y.messages) :
              LET z == y.messages[n].onStateChange.listener
              IN  z \in {None, NoCard} \/ (z \in 1..Len(y.cards) /\ y.cards[z].mounted = n)
        <4> SUFFICES ASSUME NEW n \in 1..Len(view.messages), NEW z,
                            z = view.messages[n].onStateChange.listener
                     PROVE  z \in {None, NoCard}
                            \/ (z \in 1..Len(view.cards) /\ y.cards[z].mounted = n)
          BY <1>7, <1>9, <2>1
        <4>1. z \in {None, NoCard}
              \/ (z \in 1..Len(view.cards) /\ view.cards[z].mounted = n)
          BY <2>2 DEF CalmCards
        <4> QED BY <4>1, <1>7
      <3>2. ASSUME NEW j \in 1..Len(view.cards)
            PROVE  /\ y.cards[j].state = y.messages[y.cards[j].mounted].state
                   /\ Own(y, y.cards[j].mounted) =>
                        y.messages[y.cards[j].mounted].onStateChange.listener = j
                   /\ \E i \in 1..Len(y.sessions) :
                        j \in Places(y, i) /\ At(y, i, j) = y.cards[j].mounted
        <4>1. PICK n \in 1..Len(view.messages) : n = view.cards[j].mounted
          BY Within
        <4>2. y.cards[j].mounted = n
          BY <4>1, <1>7
        <4>3. /\ view.cards[j].state = view.messages[n].state
              /\ Own(view, n) => view.messages[n].onStateChange.listener = j
              /\ \E i \in 1..Len(view.sessions) : j \in Places(view, i) /\ At(view, i, j) = n
          BY <4>1, <2>2 DEF CalmCards
        <4>4. l = view.messages[m].onStateChange.listener
          BY DEF l, t
        <4>5. j = l <=> n = m
          <5>1. n = m => j = l
            BY <2>6, <4>3, <4>4
          <5>2. ASSUME j = l PROVE n = m
            <6>1. l \in {None, NoCard} \/ (l \in 1..Len(view.cards) /\ view.cards[l].mounted = m)
              BY <2>2, <4>4 DEF CalmCards
            <6>2. l # NoCard /\ l # None
              <7>1. j \in 1..MaxMessages
                <8>1. PICK i \in 1..Len(view.sessions) : j \in Places(view, i)
                  BY <4>3
                <8>2. Len(view.sessions[i].messages) \in Nat
                      /\ Len(view.sessions[i].messages) <= MaxMessages
                  BY ViewParts, Within
                <8> QED BY <8>1, <8>2, BoundsAssumption DEF Places
              <7> QED BY <5>2, <7>1, NoneAssumption, BoundsAssumption DEF NoCard
            <6> QED BY <5>2, <6>1, <6>2, <4>1
          <5> QED BY <5>1, <5>2
        <4>6. y.cards[j].state = y.messages[n].state
          BY <4>3, <4>5, <1>7, <2>1
        <4> QED BY <4>2, <4>3, <4>6, <1>6, <2>1, <2>3
      <3> QED BY <3>1, <3>2, <1>7 DEF CalmCards
    <2> QED BY <2>2, <2>5, <2>7, <2>8 DEF Calm
  <1>12. Shown(view) => Shown(y)
    <2> SUFFICES ASSUME Shown(view), Mounted(view), view.active # 0
                 PROVE  /\ view.sessions[view.active].onMessage.listener = "ChatSession"
                        /\ \A j \in Places(view, view.active) :
                             \/ At(view, view.active, j) \in view.decrypting
                             \/ /\ j <= Len(view.cards)
                                /\ y.cards[j].message = At(view, view.active, j)
      BY <1>6, <1>7 DEF Shown, Mounted, Places, At
    <2>1. \A j \in Places(view, view.active) : j \in Nat /\ j >= 1
      BY DEF Places
    <2>2. Len(view.cards) \in Nat
      BY ViewParts
    <2> QED BY <2>1, <2>2, <1>7 DEF Shown
  <1> QED BY <1>1, <1>6, <1>9, <1>10, <1>11, <1>12

-----------------------------------------------------------------------------
(* The requests.                                                           *)

\* Nothing is twice in s.
Once(s) == \A i, j \in 1..Len(s) : s[i] = s[j] => i = j

\* A request that waits for an answer is in one place.
Asked(v, w) ==
    LET q == v.onContactRequest.eventqueue
    IN  /\ Once(v.requests) /\ Once(q)
        /\ Range(v.requests) \cap Range(q) = {}
        /\ v.missed \cap (Range(v.requests) \cup Range(q)) = {}
        /\ w = Range(v.requests) \cup Range(q) \cup v.missed
        /\ v.missed # {} => v.onNewSession.listener # None

LEMMA RangeOf ==
  ASSUME NEW S, NEW s \in Seq(S)
  PROVE  /\ \A x : x \in Range(s) <=> \E i \in 1..Len(s) : s[i] = x
         /\ Range(s) \subseteq S
  BY DEF Range

LEMMA OnceAppended ==
  ASSUME NEW S, NEW s \in Seq(S), NEW e \in S, Once(s), e \notin Range(s)
  PROVE  Once(Append(s, e)) /\ Range(Append(s, e)) = Range(s) \cup {e}
  <1> DEFINE t == Append(s, e)
  <1>1. /\ t \in Seq(S) /\ Len(s) \in Nat /\ Len(t) = Len(s) + 1 /\ t[Len(s) + 1] = e
        /\ \A n \in 1..Len(s) : t[n] = s[n]
    BY Appended
  <1>2. /\ \A x : x \in Range(s) <=> \E i \in 1..Len(s) : s[i] = x
        /\ \A x : x \in Range(t) <=> \E i \in 1..Len(t) : t[i] = x
    BY <1>1, RangeOf
  <1> HIDE DEF t
  <1>3. \A i \in 1..Len(t) : i \in 1..Len(s) \/ i = Len(s) + 1
    BY <1>1
  <1>4. \A i \in 1..Len(s) : i \in 1..Len(t)
    BY <1>1
  <1>5. Len(s) + 1 \in 1..Len(t)
    BY <1>1
  <1>6. Once(t)
    BY <1>1, <1>2, <1>3 DEF Once
  <1>7. \A x : x \in Range(t) <=> x \in Range(s) \cup {e}
    BY <1>1, <1>2, <1>3, <1>4, <1>5
  <1> QED BY <1>6, <1>7 DEF t

LEMMA Prepended ==
  ASSUME NEW S, NEW s \in Seq(S), NEW e \in S
  PROVE  /\ <<e>> \o s \in Seq(S)
         /\ Len(s) \in Nat /\ Len(<<e>> \o s) = Len(s) + 1
         /\ (<<e>> \o s)[1] = e
         /\ \A n \in 1..Len(s) : (<<e>> \o s)[n + 1] = s[n]
  OBVIOUS

LEMMA OncePrepended ==
  ASSUME NEW S, NEW s \in Seq(S), NEW e \in S, Once(s), e \notin Range(s)
  PROVE  /\ <<e>> \o s \in Seq(S)
         /\ Once(<<e>> \o s) /\ Range(<<e>> \o s) = Range(s) \cup {e}
  <1> DEFINE t == <<e>> \o s
  <1>1. /\ t \in Seq(S) /\ Len(s) \in Nat /\ Len(t) = Len(s) + 1 /\ t[1] = e
        /\ \A n \in 1..Len(s) : t[n + 1] = s[n]
    BY Prepended
  <1>2. /\ \A x : x \in Range(s) <=> \E i \in 1..Len(s) : s[i] = x
        /\ \A x : x \in Range(t) <=> \E i \in 1..Len(t) : t[i] = x
    BY <1>1, RangeOf
  <1> HIDE DEF t
  <1>3. \A i \in 1..Len(t) : i = 1 \/ (i - 1 \in 1..Len(s) /\ t[i] = s[i - 1])
    <2> SUFFICES ASSUME NEW i \in 1..Len(t), i # 1
                 PROVE  i - 1 \in 1..Len(s) /\ t[i] = s[i - 1]
      OBVIOUS
    <2>1. PICK n \in 1..Len(s) : n = i - 1
      BY <1>1
    <2> QED BY <2>1, <1>1
  <1>4. \A i \in 1..Len(s) : i + 1 \in 1..Len(t)
    BY <1>1
  <1>5. 1 \in 1..Len(t)
    BY <1>1
  <1>6. Once(t)
    <2> SUFFICES ASSUME NEW i \in 1..Len(t), NEW j \in 1..Len(t), t[i] = t[j] PROVE i = j
      BY DEF Once
    <2>1. CASE i = 1 \/ j = 1
      BY <2>1, <1>1, <1>2, <1>3
    <2>2. CASE i # 1 /\ j # 1
      <3>1. i - 1 = j - 1
        BY <2>2, <1>3 DEF Once
      <3> QED BY <3>1
    <2> QED BY <2>1, <2>2
  <1>7. \A x : x \in Range(t) <=> x \in Range(s) \cup {e}
    <2>1. ASSUME NEW x \in Range(t) PROVE x \in Range(s) \cup {e}
      BY <2>1, <1>1, <1>2, <1>3
    <2>2. ASSUME NEW x \in Range(s) PROVE x \in Range(t)
      BY <2>2, <1>1, <1>2, <1>4
    <2>3. e \in Range(t)
      BY <1>1, <1>2, <1>5
    <2> QED BY <2>1, <2>2, <2>3
  <1> QED BY <1>1, <1>6, <1>7 DEF t

LEMMA Concatenated ==
  ASSUME NEW S, NEW a \in Seq(S), NEW b \in Seq(S)
  PROVE  /\ a \o b \in Seq(S)
         /\ Len(a \o b) = Len(a) + Len(b)
         /\ \A n \in 1..(Len(a) + Len(b)) :
              (a \o b)[n] = IF n <= Len(a) THEN a[n] ELSE b[n - Len(a)]
  BY ConcatProperties

LEMMA OnceRemoved ==
  ASSUME NEW S, NEW s \in Seq(S), NEW i \in 1..Len(s)
  PROVE  /\ RemoveAt(s, i) \in Seq(S)
         /\ Once(s) => Once(RemoveAt(s, i)) /\ Range(RemoveAt(s, i)) = Range(s) \ {s[i]}
  <1> DEFINE t == RemoveAt(s, i)
  <1>1. /\ t \in Seq(S) /\ Len(s) \in Nat /\ Len(t) = Len(s) - 1
        /\ \A n \in 1..Len(t) : t[n] = IF n < i THEN s[n] ELSE s[n + 1]
    <2> DEFINE a == SubSeq(s, 1, i - 1)
               b == SubSeq(s, i + 1, Len(s))
    <2>1. Len(s) \in Nat /\ i \in Nat /\ i >= 1 /\ i <= Len(s)
      OBVIOUS
    <2>2. a \in Seq(S) /\ Len(a) = i - 1 /\ \A n \in 1..(i - 1) : a[n] = s[n]
      BY <2>1
    <2>3. b \in Seq(S) /\ Len(b) = Len(s) - i /\ \A n \in 1..(Len(s) - i) : b[n] = s[i + n]
      BY <2>1
    <2>4. t = a \o b
      BY DEF RemoveAt
    <2> HIDE DEF a, b, t
    <2>5. t \in Seq(S) /\ Len(t) = Len(a) + Len(b)
          /\ \A n \in 1..(Len(a) + Len(b)) : t[n] = IF n <= Len(a) THEN a[n] ELSE b[n - Len(a)]
      BY <2>2, <2>3, <2>4, Concatenated
    <2>6. Len(t) = Len(s) - 1
      BY <2>1, <2>2, <2>3, <2>5
    <2>7. ASSUME NEW n \in 1..Len(t) PROVE t[n] = IF n < i THEN s[n] ELSE s[n + 1]
      <3>1. CASE n < i
        BY <3>1, <2>1, <2>2, <2>3, <2>5
      <3>2. CASE ~(n < i)
        <4>1. PICK k \in 1..(Len(s) - i) : k = n - (i - 1)
          BY <3>2, <2>1, <2>6
        <4>2. t[n] = b[k] /\ b[k] = s[i + k] /\ i + k = n + 1
          BY <4>1, <3>2, <2>1, <2>2, <2>3, <2>5, <2>6
        <4> QED BY <4>2, <3>2
      <3> QED BY <3>1, <3>2
    <2> QED BY <2>1, <2>5, <2>6, <2>7
  <1>2. /\ \A x : x \in Range(s) <=> \E k \in 1..Len(s) : s[k] = x
        /\ \A x : x \in Range(t) <=> \E k \in 1..Len(t) : t[k] = x
    BY <1>1, RangeOf
  <1> HIDE DEF t
  <1>3. ASSUME Once(s) PROVE Once(t) /\ Range(t) = Range(s) \ {s[i]}
    <2>1. ASSUME NEW n \in 1..Len(t)
          PROVE  \E k \in 1..Len(s) : k # i /\ t[n] = s[k] /\ k = IF n < i THEN n ELSE n + 1
      BY <1>1
    <2>2. ASSUME NEW k \in 1..Len(s), k # i
          PROVE  \E n \in 1..Len(t) : t[n] = s[k]
      <3>1. CASE k < i
        BY <3>1, <1>1
      <3>2. CASE k > i
        <4>1. PICK n \in 1..Len(t) : n = k - 1
          BY <3>2, <1>1
        <4>2. t[n] = s[n + 1] /\ n + 1 = k
          BY <4>1, <3>2, <1>1
        <4> QED BY <4>2
      <3> QED BY <3>1, <3>2, <2>2
    <2>3. Once(t)
      <3> SUFFICES ASSUME NEW n \in 1..Len(t), NEW l \in 1..Len(t), t[n] = t[l] PROVE n = l
        BY DEF Once
      <3>1. PICK k \in 1..Len(s) : t[n] = s[k] /\ k = IF n < i THEN n ELSE n + 1
        BY <2>1
      <3>2. PICK h \in 1..Len(s) : t[l] = s[h] /\ h = IF l < i THEN l ELSE l + 1
        BY <2>1
      <3>3. k = h
        BY <3>1, <3>2, <1>3 DEF Once
      <3> QED BY <3>1, <3>2, <3>3
    <2>4. \A x : x \in Range(t) <=> x \in Range(s) \ {s[i]}
      <3>1. ASSUME NEW x \in Range(t) PROVE x \in Range(s) \ {s[i]}
        <4>1. PICK n \in 1..Len(t) : t[n] = x
          BY <3>1, <1>2
        <4>2. PICK k \in 1..Len(s) : k # i /\ x = s[k]
          BY <4>1, <2>1
        <4> QED BY <4>2, <1>2, <1>3 DEF Once
      <3>2. ASSUME NEW x \in Range(s) \ {s[i]} PROVE x \in Range(t)
        BY <3>2, <1>2, <2>2
      <3> QED BY <3>1, <3>2
    <2> QED BY <2>3, <2>4
  <1> QED BY <1>1, <1>3 DEF t

LEMMA LeastExists ==
  ASSUME NEW T \in SUBSET Nat, T # {}
  PROVE  \E x \in T : \A y \in T : x <= y
  <1>1. PICK x \in T : \A y \in T : ~(<<y, x>> \in OpToRel(<, Nat))
    BY NatLessThanWellFounded, WFMin
  <1>2. \A y \in T : ~(y < x)
    BY <1>1 DEF OpToRel
  <1> QED BY <1>2

\* The first session with a peer.
LEMMA FirstWithIs ==
  ASSUME NEW v, Len(v.sessions) \in Nat, NEW p
  PROVE  FirstWith(v, p) \in 0..Len(v.sessions)
  <1> DEFINE T == {i \in 1..Len(v.sessions) : v.sessions[i].with = p}
  <1>1. FirstWith(v, p) = IF T # {} THEN Min(T) ELSE 0
    BY DEF FirstWith, SelectInSeq
  <1>2. CASE T # {}
    <2>1. T \in SUBSET Nat
      OBVIOUS
    <2>2. PICK x \in T : \A y \in T : x <= y
      <3> HIDE DEF T
      <3> QED BY <1>2, <2>1, LeastExists
    <2>3. Min(T) \in T
      BY <2>2 DEF Min
    <2> QED BY <1>1, <1>2, <2>3
  <1>3. CASE T = {}
    BY <1>1, <1>3
  <1> QED BY <1>2, <1>3

\* The page agrees with the library, for the user me and the requests w that wait.
Current(v, me, w) == Calm(v, me) /\ Shown(v) /\ Listed(v) /\ Asked(v, w)

\* Views that differ in the requests and in who listens.
LEMMA PageAlike ==
  ASSUME NEW v, ViewOK(v), NEW x, x \in Views,
         x.sessions = v.sessions, x.messages = v.messages, x.decrypting = v.decrypting,
         x.page = v.page, x.shown = v.shown, x.active = v.active, x.self = v.self,
         x.cards = v.cards,
         x.onNewSession.eventqueue \in {v.onNewSession.eventqueue, << >>}
  PROVE  /\ ViewOK(x)
         /\ \A me : Calm(v, me) => Calm(x, me)
         /\ Shown(v) => Shown(x)
  <1>1. \A j \in 1..Len(x.onNewSession.eventqueue) :
          x.onNewSession.eventqueue[j] \in 1..Len(v.sessions)
    BY EmptySeqs DEF ViewOK, InRange
  <1>2. InRange(x)
    BY <1>1 DEF ViewOK, InRange
  <1>3. \A me : Calm(v, me) => Calm(x, me)
    BY CalmAlike DEF Calm
  <1>4. Shown(v) => Shown(x)
    BY DEF Shown, Mounted, Places, At
  <1> QED BY <1>2, <1>3, <1>4 DEF ViewOK

LEMMA ListedAlike ==
  ASSUME NEW v, NEW x, Listed(v), Len(x.sessions) = Len(v.sessions), x.shown = v.shown,
         x.onNewSession = v.onNewSession, x.page = v.page,
         x.onContactRequest.listener = v.onContactRequest.listener,
         v.onNewSession.listener # None => x.onContactRequest.eventqueue = << >>
  PROVE  Listed(x)
  BY DEF Listed, Mounted

LEMMA AskedAlike ==
  ASSUME NEW v, NEW x, NEW w, Asked(v, w), x.requests = v.requests, x.missed = v.missed,
         x.onContactRequest = v.onContactRequest,
         x.onNewSession.listener = v.onNewSession.listener
  PROVE  Asked(x, w)
  BY DEF Asked

LEMMA ViewTriggers ==
  ASSUME NEW v, v \in Views
  PROVE  /\ v.onContactRequest = [listener |-> v.onContactRequest.listener,
                                  eventqueue |-> v.onContactRequest.eventqueue]
         /\ v.onContactRequest.listener \in {None, "page"}
         /\ v.onContactRequest.eventqueue \in Seq(Requests)
         /\ v.onNewSession = [listener |-> v.onNewSession.listener,
                              eventqueue |-> v.onNewSession.eventqueue]
         /\ v.onNewSession.listener \in {None, "page"}
         /\ v.onNewSession.eventqueue \in Seq(Nat)
         /\ v.requests \in Seq(Requests) /\ v.missed \in SUBSET Requests
  BY DEF Views

\* The handling of what has come.
HandlingOK ==
    /\ contacts \subseteq Peers
    /\ begun \subseteq Requests /\ waiting \subseteq begun
    /\ reading \subseteq [request : begun \ waiting, key : Nat]
    /\ \A d, e \in reading : d.request = e.request => d = e

LEMMA HandlingSame ==
  HandlingOK /\ UNCHANGED <<contacts, begun, reading, waiting>> => HandlingOK'
  BY DEF HandlingOK

\* A contact request is read.
LEMMA ListedKeeps ==
  ASSUME ViewOK(view), NEW p \in Requests, NEW me \in Owners,
         p \notin waiting, waiting' = waiting \cup {p},
         view' = LET w == [view EXCEPT !.onContactRequest = E!Trigger(@, p)]
                 IN  IF E!Dispatched(view.onContactRequest, p) = << >> THEN w
                     ELSE RequestListed(w, p, me)
  PROVE  /\ ViewOK(view') /\ view'.missed = view.missed
         /\ Current(view, me, waiting) => Current(view', me, waiting') /\ view'.page = view.page
  <1> DEFINE t == view.onContactRequest
             u == E!Trigger(t, p)
             x == [view EXCEPT !.onContactRequest = u]
             y == [x EXCEPT !.requests = <<p>> \o @]
  <1>1. view' = IF E!Dispatched(t, p) = << >> THEN x ELSE RequestListed(x, p, me)
    OBVIOUS
  <1>2. /\ t = [listener |-> t.listener, eventqueue |-> t.eventqueue]
        /\ t.listener \in {None, "page"} /\ t.eventqueue \in Seq(Requests)
        /\ view \in Views /\ view.requests \in Seq(Requests)
    BY ViewTriggers DEF ViewOK
  <1> HIDE DEF t
  <1>3. /\ u = [listener |-> u.listener, eventqueue |-> u.eventqueue]
        /\ u.listener = t.listener
        /\ t.listener # None => u = t
        /\ t.listener = None => u.eventqueue = Append(t.eventqueue, p)
        /\ u.eventqueue \in Seq(Requests)
        /\ E!Dispatched(t, p) = << >> <=> t.listener = None
    BY <1>2, Triggered
  <1> HIDE DEF u
  <1>4. u \in [listener : {None, "page"}, eventqueue : Seq(Requests)]
    BY <1>2, <1>3
  <1>5. /\ x \in Views /\ x.onContactRequest = u
        /\ x.sessions = view.sessions /\ x.messages = view.messages
        /\ x.decrypting = view.decrypting /\ x.onNewSession = view.onNewSession
        /\ x.page = view.page /\ x.shown = view.shown /\ x.active = view.active
        /\ x.requests = view.requests /\ x.missed = view.missed /\ x.self = view.self
        /\ x.cards = view.cards
    BY <1>2, <1>4 DEF Views
  <1> HIDE DEF x
  <1>6. /\ ViewOK(x)
        /\ Shown(view) => Shown(x)
        /\ Calm(view, me) => Calm(x, me)
    BY <1>5, PageAlike
  <1>7. CASE t.listener = None
    <2>1. view' = x
      BY <1>1, <1>3, <1>7
    <2>2. ASSUME Current(view, me, waiting) PROVE Current(x, me, waiting')
      <3>1. Listed(x)
        BY <2>2, <1>3, <1>5, <1>7, ListedAlike DEF Current, Listed, t
      <3>2. Once(t.eventqueue) /\ p \notin Range(t.eventqueue)
            /\ p \notin Range(view.requests) \cup view.missed
        BY <2>2, <1>1 DEF Current, Asked, t
      <3>3. Once(u.eventqueue) /\ Range(u.eventqueue) = Range(t.eventqueue) \cup {p}
        <4>1. t.eventqueue \in Seq(Requests)
          BY <1>2
        <4>2. /\ Once(Append(t.eventqueue, p))
              /\ Range(Append(t.eventqueue, p)) = Range(t.eventqueue) \cup {p}
          BY <4>1, <3>2, OnceAppended
        <4> QED BY <4>2, <1>3, <1>7
      <3>4. Asked(x, waiting')
        BY <2>2, <3>2, <3>3, <1>1, <1>5 DEF Current, Asked, t
      <3> QED BY <2>2, <3>1, <3>4, <1>6 DEF Current
    <2> QED BY <2>1, <2>2, <1>1, <1>5, <1>6
  <1>8. CASE t.listener # None
    <2>1. view' = RequestListed(x, p, me)
      BY <1>1, <1>3, <1>8
    <2>2. CASE ~Mounted(x)
      <3>1. view' = x
        BY <2>1, <2>2 DEF RequestListed
      <3>2. ~Current(view, me, waiting)
        BY <2>2, <1>5, <1>8 DEF Current, Listed, Mounted, t
      <3> QED BY <3>1, <3>2, <1>1, <1>5, <1>6
    <2>3. CASE Mounted(x)
      <3>1. view' = Rendered(y, me)
        BY <2>1, <2>3 DEF RequestListed
      <3>2. <<p>> \o view.requests \in Seq(Requests)
        BY <1>2, Prepended
      <3>3. /\ y \in Views /\ y.requests = <<p>> \o view.requests
            /\ y.onContactRequest = t
            /\ y.sessions = view.sessions /\ y.messages = view.messages
            /\ y.decrypting = view.decrypting /\ y.onNewSession = view.onNewSession
            /\ y.page = view.page /\ y.shown = view.shown /\ y.active = view.active
            /\ y.missed = view.missed /\ y.self = view.self
            /\ y.cards = view.cards
        BY <1>3, <1>5, <1>8, <3>2 DEF Views
      <3> HIDE DEF y
      <3>4. Calm(view, me) => Calm(y, me)
        BY <3>3, PageAlike
      <3>5. ViewOK(y)
        BY <3>3, PageAlike
      <3>6. /\ ViewOK(view') /\ Kept(y, view') /\ view'.shown = y.shown
            /\ Calm(y, me) => Calm(view', me) /\ Shown(view') /\ view'.page = y.page
        BY <3>1, <3>5, RenderedKeeps
      <3>7. ASSUME Current(view, me, waiting) PROVE Current(view', me, waiting')
        <4>1. Calm(view', me) /\ Shown(view') /\ view'.page = view.page
          BY <3>3, <3>4, <3>6, <3>7 DEF Current
        <4>2. Listed(view')
          BY SMTT(40), <4>1, <3>3, <3>6, <3>7, ListedAlike DEF Current, Kept, Listed, t
        <4>3. Once(view.requests) /\ p \notin Range(view.requests)
              /\ p \notin Range(t.eventqueue) \cup view.missed
          BY <3>7, <1>1 DEF Current, Asked, t
        <4>4. /\ Once(<<p>> \o view.requests)
              /\ Range(<<p>> \o view.requests) = Range(view.requests) \cup {p}
          BY <4>3, <1>2, OncePrepended
        <4>5. /\ view'.requests = <<p>> \o view.requests /\ view'.missed = view.missed
              /\ view'.onContactRequest = view.onContactRequest
              /\ view'.onNewSession = view.onNewSession
          BY <3>3, <3>6 DEF Kept, t
        <4>6. Asked(view', waiting')
          BY <3>7, <4>3, <4>4, <4>5, <1>1 DEF Current, Asked, t
        <4> QED BY <4>1, <4>2, <4>6 DEF Current
      <3> QED BY <3>3, <3>4, <3>6, <3>7, <1>1 DEF Kept, Current
    <2> QED BY <2>2, <2>3
  <1> QED BY <1>7, <1>8

LEMMA RequestReadKeeps ==
  ASSUME ViewOK(view), HandlingOK, NEW d \in reading, NEW me \in Owners, RequestRead(d, me)
  PROVE  /\ ViewOK(view') /\ HandlingOK' /\ view'.missed = view.missed
         /\ Current(view, me, waiting) => Current(view', me, waiting') /\ view'.page = view.page
  <1>1. /\ d.request \in Requests /\ d.request \in begun /\ d.request \notin waiting
        /\ reading' = reading \ {d} /\ contacts' = contacts /\ begun' = begun
    BY DEF HandlingOK, RequestRead
  <1>2. PICK p : p = d.request
    OBVIOUS
  <1>3. CASE d.key # me
    <2>1. view' = view /\ waiting' = waiting
      BY <1>3 DEF RequestRead
    <2>2. HandlingOK'
      BY <1>1, <2>1 DEF HandlingOK
    <2> QED BY <2>1, <2>2
  <1>4. CASE d.key = me
    <2>1. /\ waiting' = waiting \cup {p}
          /\ view' = LET w == [view EXCEPT !.onContactRequest = E!Trigger(@, p)]
                     IN  IF E!Dispatched(view.onContactRequest, p) = << >> THEN w
                         ELSE RequestListed(w, p, me)
      BY <1>2, <1>4 DEF RequestRead
    <2>2. /\ ViewOK(view') /\ view'.missed = view.missed
          /\ Current(view, me, waiting) => Current(view', me, waiting') /\ view'.page = view.page
      BY <1>1, <1>2, <2>1, ListedKeeps
    <2>3. HandlingOK'
      <3>1. \A e \in reading \ {d} : e.request # p
        BY <1>2 DEF HandlingOK
      <3>2. \A e \in reading \ {d} : e \in [request : begun \ (waiting \cup {p}), key : Nat]
        BY <3>1 DEF HandlingOK
      <3> QED BY <1>1, <1>2, <2>1, <3>2 DEF HandlingOK
    <2> QED BY <2>2, <2>3
  <1> QED BY <1>3, <1>4

\* A contact request comes.
LEMMA RequestComesKeeps ==
  ASSUME HandlingOK, NEW r \in Requests, NEW me \in Owners, RequestComes(r, me)
  PROVE  HandlingOK' /\ UNCHANGED <<view, contacts, waiting>>
  <1>1. /\ begun' = begun \cup {r} /\ r \notin begun
        /\ reading' = reading \cup {[request |-> r, key |-> me]}
        /\ UNCHANGED <<view, contacts, waiting>>
    BY DEF RequestComes
  <1>2. me \in Nat
    BY GuideBoundsAssumption DEF Owners
  <1>3. \A d \in reading : d.request \in begun /\ d.request # r
    BY <1>1 DEF HandlingOK
  <1>4. reading' \subseteq [request : begun' \ waiting', key : Nat]
    BY <1>1, <1>2 DEF HandlingOK
  <1>5. \A d, e \in reading' : d.request = e.request => d = e
    BY <1>1, <1>3 DEF HandlingOK
  <1> QED BY <1>1, <1>4, <1>5 DEF HandlingOK

\* A text has come.
LEMMA ArriveKeeps ==
  ASSUME ViewOK(view), NEW p \in Peers, NEW me \in Owners, Arrive(p, me)
  PROVE  /\ ViewOK(view') /\ UNCHANGED <<contacts, begun, reading, waiting>>
         /\ view'.missed = view.missed
         /\ Current(view, me, waiting) => Current(view', me, waiting') /\ view'.page = view.page
  <1> DEFINE i == FirstWith(view, p)
             x == SessionAdded(view, p, me)
             n == Len(x.sessions)
  <1>1. /\ Len(view.messages) < MaxMessages /\ UNCHANGED <<contacts, begun, reading, waiting>>
        /\ view' = IF i # 0 THEN MessageAdded(view, i, 0, "none")
                   ELSE MessageAdded(x, n, 0, "none")
    BY DEF Arrive, handling
  <1>2. 0 \in Owners /\ "none" \in MsgState
    BY GuideBoundsAssumption DEF Owners, MsgState
  <1>3. CASE i # 0
    <2>1. i \in 1..Len(view.sessions)
      <3>1. Len(view.sessions) \in Nat
        BY ViewParts
      <3>2. i \in 0..Len(view.sessions)
        BY <3>1, FirstWithIs
      <3> QED BY <3>1, <3>2, <1>3
    <2> HIDE DEF i
    <2>2. view' = MessageAdded(view, i, 0, "none")
      BY <1>1, <1>3
    <2>3. /\ ViewOK(view')
          /\ view'.requests = view.requests /\ view'.missed = view.missed
          /\ view'.onNewSession = view.onNewSession
          /\ view'.onContactRequest = view.onContactRequest
          /\ Len(view'.sessions) = Len(view.sessions) /\ view'.shown = view.shown
          /\ Calm(view, me) /\ Shown(view) =>
               Calm(view', me) /\ Shown(view') /\ view'.page = view.page
      BY <1>1, <1>2, <2>1, <2>2, MessageAddedKeeps
    <2>4. ASSUME Current(view, me, waiting) PROVE Listed(view') /\ Asked(view', waiting')
      <3>1. Listed(view')
        BY <2>3, <2>4, ListedAlike DEF Current, Listed
      <3>2. Asked(view', waiting')
        BY <1>1, <2>3, <2>4, AskedAlike DEF Current
      <3> QED BY <3>1, <3>2
    <2> QED BY <1>1, <2>3, <2>4 DEF Current
  <1>4. CASE i = 0
    <2>1. view' = MessageAdded(x, n, 0, "none")
      BY <1>1, <1>4
    <2>2. /\ ViewOK(x)
          /\ Len(x.sessions) = Len(view.sessions) + 1 /\ Len(x.messages) = Len(view.messages)
          /\ x.requests = view.requests /\ x.missed = view.missed
          /\ x.onContactRequest = view.onContactRequest
          /\ x.onNewSession.listener = view.onNewSession.listener
          /\ Calm(view, me) /\ Shown(view) => Calm(x, me) /\ Shown(x) /\ x.page = view.page
          /\ Calm(view, me) /\ Listed(view) => Listed(x)
      BY SessionAddedKeeps
    <2>3. n \in 1..Len(x.sessions) /\ Len(x.messages) < MaxMessages
      BY <2>2, <1>1, ViewParts
    <2> HIDE DEF x, n
    <2>4. /\ ViewOK(view')
          /\ view'.requests = x.requests /\ view'.missed = x.missed
          /\ view'.onNewSession = x.onNewSession
          /\ view'.onContactRequest = x.onContactRequest
          /\ Len(view'.sessions) = Len(x.sessions) /\ view'.shown = x.shown
          /\ Calm(x, me) /\ Shown(x) =>
               Calm(view', me) /\ Shown(view') /\ view'.page = x.page
      BY <1>2, <2>1, <2>2, <2>3, MessageAddedKeeps
    <2>5. ASSUME Current(view, me, waiting) PROVE Current(view', me, waiting')
      <3>1. Calm(x, me) /\ Shown(x) /\ Listed(x)
        BY <2>2, <2>5 DEF Current
      <3>2. Listed(view')
        BY <2>4, <3>1, ListedAlike DEF Listed
      <3>3. Asked(view', waiting')
        BY <1>1, <2>2, <2>4, <2>5, AskedAlike DEF Current
      <3> QED BY <2>4, <3>1, <3>2, <3>3 DEF Current
    <2> QED BY <1>1, <2>2, <2>4, <2>5 DEF Current
  <1> QED BY <1>3, <1>4

LEMMA Reversed ==
  ASSUME NEW S, NEW s \in Seq(S)
  PROVE  Reverse(s) \in Seq(S)
  <1>1. Len(s) \in Nat /\ \A j \in 1..Len(s) : Len(s) - j + 1 \in 1..Len(s) /\ s[j] \in S
    OBVIOUS
  <1>2. \A j \in 1..Len(s) : s[Len(s) - j + 1] \in S
    BY <1>1
  <1> QED BY <1>1, <1>2 DEF Reverse

LEMMA ReversedEmpty == Reverse(<< >>) = << >>
  <1>1. Reverse(<< >>) = [j \in {} |-> << >>[Len(<< >>) - j + 1]]
    BY EmptySeqs DEF Reverse
  <1>2. \A f, S : f \in [{} -> S] => f = << >>
    OBVIOUS
  <1> QED BY <1>1, <1>2

LEMMA EmptyBefore ==
  ASSUME NEW S, NEW s \in Seq(S)
  PROVE  << >> \o s = s
  OBVIOUS

LEMMA LastIs ==
  ASSUME NEW S, NEW s \in Seq(S), s # << >>
  PROVE  Last(s) \in S /\ Last(s) \in Range(s) /\ Head(s) = s[1] /\ 1 \in 1..Len(s)
  <1>1. Len(s) \in 1..Len(s) /\ DOMAIN s = 1..Len(s)
    OBVIOUS
  <1>2. s[Len(s)] \in S /\ s[Len(s)] \in Range(s)
    BY <1>1, RangeOf
  <1>3. Head(s) = s[1] /\ 1 \in 1..Len(s)
    OBVIOUS
  <1> QED BY <1>2, <1>3 DEF Last

LEMMA EmptyRange == Range(<< >>) = {} /\ Once(<< >>)
  BY EmptySeqs, RangeOf DEF Once, Range

\* The page begins to listen.
LEMMA ListeningKeeps ==
  ASSUME NEW v, ViewOK(v), NEW batched \in BOOLEAN, NEW me \in Owners
  PROVE  LET w == Listening(v, batched, me) IN
         /\ ViewOK(w)
         /\ v.onContactRequest.eventqueue = << >> => w.missed = {}
         /\ \A wait : /\ Current(v, me, wait) /\ Mounted(v) /\ v.onNewSession.listener = None
                      /\ batched \/ v.onContactRequest.eventqueue = << >>
                      => Current(w, me, wait) /\ w.page = v.page
  <1> DEFINE w == Listening(v, batched, me)
             q == v.onContactRequest.eventqueue
             listed == IF batched /\ q # << >> THEN <<Last(q)>> ELSE Reverse(q)
             new == v.onNewSession.eventqueue
             x == [v EXCEPT !.onContactRequest = E!On(@, "page"), !.onNewSession = E!On(@, "page"),
                            !.requests = listed \o @, !.missed = Range(q) \ Range(listed)]
  <1>1. w = IF new = << >> THEN Rendered(x, me) ELSE SessionsListed(x, Head(new), me)
    BY Triggers DEF Listening
  <1>2. v \in Views /\ q \in Seq(Requests) /\ new \in Seq(Nat) /\ v.requests \in Seq(Requests)
        /\ v.missed \in SUBSET Requests
    BY ViewTriggers DEF ViewOK
  <1>3. new # << >> => Head(new) \in 1..Len(v.sessions)
    <2>1. \A j \in 1..Len(new) : new[j] \in 1..Len(v.sessions)
      BY DEF ViewOK, InRange
    <2> QED BY <1>2, <2>1, LastIs
  <1>4. listed \in Seq(Requests) /\ listed \o v.requests \in Seq(Requests)
    <2> HIDE DEF q
    <2>1. CASE batched /\ q # << >>
      <3>1. Last(q) \in Requests
        BY <2>1, <1>2, LastIs
      <3>2. <<Last(q)>> \in Seq(Requests) /\ <<Last(q)>> \o v.requests \in Seq(Requests)
        BY <3>1, <1>2, Prepended
      <3> QED BY <2>1, <3>2
    <2>2. CASE ~(batched /\ q # << >>)
      <3>1. Reverse(q) \in Seq(Requests)
        BY <1>2, Reversed
      <3> QED BY <3>1, <2>2, <1>2, Concatenated
    <2> QED BY <2>1, <2>2
  <1>5. Range(q) \subseteq Requests
    BY <1>2, RangeOf
  <1>6. ASSUME q = << >>
        PROVE  listed = << >> /\ listed \o v.requests = v.requests /\ Range(q) = {}
    BY <1>2, <1>6, ReversedEmpty, EmptyBefore, EmptyRange
  <1>7. ASSUME batched, q # << >>
        PROVE  listed = <<Last(q)>> /\ Last(q) \in Range(q) /\ Last(q) \in Requests
               /\ Range(listed) = {Last(q)}
    <2>1. listed = <<Last(q)>> /\ Last(q) \in Range(q) /\ Last(q) \in Requests
      BY <1>2, <1>7, LastIs
    <2>2. \A e : Range(<<e>>) = {e}
      BY DEF Range
    <2> QED BY <2>1, <2>2
  <1> HIDE DEF listed, q, new, w
  <1>8. E!On(v.onContactRequest, "page") = [listener |-> "page", eventqueue |-> << >>]
        /\ E!On(v.onNewSession, "page") = [listener |-> "page", eventqueue |-> << >>]
    BY Triggers
  <1>9. /\ x \in Views
        /\ x.onContactRequest = [listener |-> "page", eventqueue |-> << >>]
        /\ x.onNewSession = [listener |-> "page", eventqueue |-> << >>]
        /\ x.requests = listed \o v.requests /\ x.missed = Range(q) \ Range(listed)
        /\ x.sessions = v.sessions /\ x.messages = v.messages
        /\ x.decrypting = v.decrypting /\ x.page = v.page /\ x.shown = v.shown
        /\ x.active = v.active /\ x.self = v.self /\ x.cards = v.cards
    <2>1. << >> \in Seq(Nat) /\ << >> \in Seq(Requests)
      BY EmptySeqs
    <2>2. PICK r : r = listed \o v.requests
      OBVIOUS
    <2>3. PICK miss : miss = Range(q) \ Range(listed)
      OBVIOUS
    <2>4. PICK c : c = E!On(v.onContactRequest, "page")
      OBVIOUS
    <2>5. PICK s : s = E!On(v.onNewSession, "page")
      OBVIOUS
    <2>6. r \in Seq(Requests) /\ miss \in SUBSET Requests
      BY <1>4, <1>5, <2>2, <2>3
    <2>7. c \in [listener : {None, "page"}, eventqueue : Seq(Requests)]
          /\ s \in [listener : {None, "page"}, eventqueue : Seq(Nat)]
      <3>1. PICK e : e = << >>
        OBVIOUS
      <3>2. c = [listener |-> "page", eventqueue |-> e]
            /\ s = [listener |-> "page", eventqueue |-> e]
        BY <1>8, <2>4, <2>5, <3>1
      <3>3. e \in Seq(Nat) /\ e \in Seq(Requests)
        BY <2>1, <3>1
      <3> QED BY <3>2, <3>3
    <2>8. x = [v EXCEPT !.onContactRequest = c, !.onNewSession = s, !.requests = r,
                        !.missed = miss]
      BY <2>2, <2>3, <2>4, <2>5
    <2> HIDE DEF x
    <2>9. /\ x \in Views
          /\ x.onContactRequest = c /\ x.onNewSession = s
          /\ x.requests = r /\ x.missed = miss
          /\ x.sessions = v.sessions /\ x.messages = v.messages
          /\ x.decrypting = v.decrypting /\ x.page = v.page /\ x.shown = v.shown
          /\ x.active = v.active /\ x.self = v.self /\ x.cards = v.cards
      BY <1>2, <2>6, <2>7, <2>8 DEF Views
    <2> QED BY <1>8, <2>2, <2>3, <2>4, <2>5, <2>9
  <1> HIDE DEF x
  <1>10. /\ ViewOK(x)
         /\ Calm(v, me) => Calm(x, me)
    BY <1>9, PageAlike
  <1>11. /\ ViewOK(w) /\ Kept(x, w)
         /\ new = << >> => w.shown = x.shown
         /\ new # << >> /\ Mounted(x) => w.shown = Len(x.sessions)
         /\ Calm(x, me) => Calm(w, me) /\ Shown(w) /\ w.page = x.page
    <2>1. CASE new = << >>
      BY <2>1, <1>1, <1>10, RenderedKeeps
    <2>2. CASE new # << >>
      <3>1. Head(new) \in 1..Len(x.sessions)
        BY <2>2, <1>3, <1>9
      <3> QED BY <2>2, <3>1, <1>1, <1>10, SessionsListedKeeps
    <2> QED BY <2>1, <2>2
  <1>12. ASSUME NEW wait, Current(v, me, wait), Mounted(v), v.onNewSession.listener = None,
                batched \/ q = << >>
         PROVE  Current(w, me, wait) /\ w.page = v.page
    <2>1. Calm(w, me) /\ Shown(w) /\ w.page = v.page /\ Mounted(w)
      BY <1>9, <1>10, <1>11, <1>12 DEF Current, Mounted
    <2>2. Listed(w)
      <3>1. w.onNewSession = [listener |-> "page", eventqueue |-> << >>]
            /\ w.onContactRequest = [listener |-> "page", eventqueue |-> << >>]
            /\ Len(w.sessions) = Len(v.sessions)
        BY <1>9, <1>11 DEF Kept
      <3>2. \A i \in 1..Len(v.sessions) : i <= w.shown
        <4>1. CASE new = << >>
          <5>1. \A i \in 1..Len(v.sessions) : i <= v.shown
            BY <4>1, <1>12, EmptySeqs DEF Current, Listed, new
          <5> QED BY <4>1, <5>1, <1>9, <1>11
        <4>2. CASE new # << >>
          BY <4>2, <1>9, <1>11, <1>12 DEF Mounted
        <4> QED BY <4>1, <4>2
      <3> QED BY <2>1, <3>1, <3>2 DEF Listed
    <2>3. Asked(w, wait)
      <3>1. /\ Once(v.requests) /\ Once(q) /\ Range(v.requests) \cap Range(q) = {}
            /\ v.missed = {} /\ wait = Range(v.requests) \cup Range(q)
        BY <1>12 DEF Current, Asked, q
      <3>2. /\ w.requests = listed \o v.requests /\ w.missed = Range(q) \ Range(listed)
            /\ w.onContactRequest.eventqueue = << >> /\ w.onNewSession.listener # None
        BY <1>9, <1>11, NoneAssumption DEF Kept
      <3>3. CASE q = << >>
        BY <3>1, <3>2, <3>3, <1>6, EmptyRange DEF Asked
      <3>4. CASE q # << >>
        <4>1. Last(q) \notin Range(v.requests) /\ Range(listed) = {Last(q)}
              /\ Last(q) \in Range(q) /\ Last(q) \in Requests /\ listed = <<Last(q)>>
          BY <3>1, <3>4, <1>7, <1>12
        <4>2. /\ Once(<<Last(q)>> \o v.requests)
              /\ Range(<<Last(q)>> \o v.requests) = Range(v.requests) \cup {Last(q)}
          BY <4>1, <3>1, <1>2, OncePrepended
        <4> QED BY <3>1, <3>2, <4>1, <4>2, EmptyRange DEF Asked
      <3> QED BY <3>3, <3>4
    <2> QED BY <2>1, <2>2, <2>3 DEF Current
  <1>13. q = << >> => w.missed = {}
    BY <1>6, <1>9, <1>11 DEF Kept
  <1> QED BY <1>11, <1>12, <1>13 DEF w, q

\* TMCSAnonymousUI is created.
LEMMA OpenedKeeps ==
  ASSUME NEW v, ViewOK(v), NEW ready \in BOOLEAN, NEW me \in Owners
  PROVE  LET w == Opened(v, ready, me) IN
         /\ ViewOK(w)
         /\ ~ready => w.missed = v.missed /\ w.onNewSession = v.onNewSession
              /\ w.onContactRequest = v.onContactRequest
              /\ w.requests = v.requests /\ Len(w.sessions) = Len(v.sessions)
              /\ Len(w.messages) = Len(v.messages)
         /\ \A wait : Current(v, me, wait) /\ ~Mounted(v) => Current(w, me, wait) /\ Mounted(w)
  <1> DEFINE w == Opened(v, ready, me)
             n == IF v.sessions = << >> THEN 0 ELSE 1
             x == [v EXCEPT !.page = "mounted", !.shown = Len(v.sessions), !.active = n]
             y == Rendered(x, me)
  <1>1. w = IF ready THEN Listening(y, TRUE, me) ELSE y
    BY DEF Opened
  <1>2. /\ v \in Views /\ Len(v.sessions) \in Nat /\ n \in 0..Len(v.sessions) /\ n \in Nat
    <2>1. v.sessions \in Seq(Sessions)
      BY ViewParts
    <2>2. v.sessions # << >> => 1 \in 1..Len(v.sessions)
      BY <2>1, LastIs
    <2> QED BY <2>1, <2>2 DEF ViewOK
  <1> HIDE DEF w, n
  <1>3. /\ x \in Views /\ x.page = "mounted" /\ x.shown = Len(v.sessions) /\ x.active = n
        /\ x.requests = v.requests /\ x.missed = v.missed /\ x.sessions = v.sessions
        /\ x.messages = v.messages /\ x.decrypting = v.decrypting /\ x.self = v.self
        /\ x.cards = v.cards /\ x.onNewSession = v.onNewSession
        /\ x.onContactRequest = v.onContactRequest
    BY <1>2 DEF Views
  <1> HIDE DEF x
  <1>4. ViewOK(x)
    BY <1>2, <1>3 DEF ViewOK, InRange
  <1>5. Calm(v, me) => Calm(x, me)
    BY <1>3, CalmAlike DEF Calm
  <1>6. /\ ViewOK(y) /\ Kept(x, y) /\ y.shown = x.shown
        /\ Calm(x, me) => Calm(y, me) /\ Shown(y) /\ y.page = x.page
    BY <1>4, RenderedKeeps
  <1> HIDE DEF y
  <1>7. ASSUME NEW wait, Current(v, me, wait), ~Mounted(v)
        PROVE  Current(y, me, wait) /\ Mounted(y) /\ y.onNewSession.listener = None
    <2>1. Calm(y, me) /\ Shown(y) /\ Mounted(y)
      BY <1>3, <1>5, <1>6, <1>7 DEF Current, Mounted
    <2>2. v.onNewSession.listener = None /\ v.onContactRequest.listener = None
      BY <1>7 DEF Current, Listed
    <2>3. y.onNewSession = v.onNewSession /\ y.onContactRequest = v.onContactRequest
          /\ y.requests = v.requests /\ y.missed = v.missed
      BY <1>3, <1>6 DEF Kept
    <2>4. Listed(y)
      BY <2>2, <2>3, <1>3, <1>6 DEF Listed, Kept
    <2>5. Asked(y, wait)
      BY <1>7, <2>3, AskedAlike DEF Current
    <2> QED BY <2>1, <2>2, <2>3, <2>4, <2>5 DEF Current
  <1>8. CASE ~ready
    <2>1. w = y
      BY <1>1, <1>8
    <2> QED BY <2>1, <1>3, <1>6, <1>7, <1>8 DEF Kept, w
  <1>9. CASE ready
    <2>1. w = Listening(y, TRUE, me)
      BY <1>1, <1>9
    <2>2. /\ ViewOK(w)
          /\ \A wait : Current(y, me, wait) /\ Mounted(y) /\ y.onNewSession.listener = None
                => Current(w, me, wait) /\ w.page = y.page
      BY <2>1, <1>6, ListeningKeeps
    <2> QED BY <2>2, <1>7, <1>9 DEF w, Mounted
  <1> QED BY <1>8, <1>9

\* A contact request is answered.
LEMMA ResolveKeeps ==
  ASSUME ViewOK(view), NEW i \in 1..Len(view.requests), NEW accept \in BOOLEAN,
         NEW me \in Owners, Resolve(i, accept, me), HandlingOK
  PROVE  /\ ViewOK(view') /\ HandlingOK'
         /\ view'.missed = view.missed
         /\ Current(view, me, waiting) => Current(view', me, waiting') /\ view'.page = view.page
  <1> DEFINE p == view.requests[i]
             r == RemoveAt(view.requests, i)
             x == [view EXCEPT !.requests = RemoveAt(@, i)]
             y == Rendered(x, me)
  <1>1. /\ view' = IF accept THEN SessionAdded(y, p[1], me) ELSE y
        /\ contacts' = (IF accept THEN contacts \cup {p[1]} ELSE contacts)
        /\ waiting' = waiting \ {p} /\ begun' = begun /\ reading' = reading
    BY DEF Resolve
  <1>2. /\ view \in Views /\ view.requests \in Seq(Requests) /\ p \in Requests
    <2>1. view \in Views /\ view.requests \in Seq(Requests)
      BY ViewTriggers DEF ViewOK
    <2> QED BY <2>1
  <1>3. /\ r \in Seq(Requests)
        /\ Once(view.requests) => Once(r) /\ Range(r) = Range(view.requests) \ {p}
        /\ p \in Range(view.requests)
    BY <1>2, OnceRemoved, RangeOf
  <1> HIDE DEF p
  <1>4. /\ x \in Views /\ x.requests = r /\ x.page = view.page
        /\ x.shown = view.shown /\ x.active = view.active
        /\ x.missed = view.missed /\ x.sessions = view.sessions
        /\ x.messages = view.messages /\ x.decrypting = view.decrypting /\ x.self = view.self
        /\ x.cards = view.cards /\ x.onNewSession = view.onNewSession
        /\ x.onContactRequest = view.onContactRequest
    <2> HIDE DEF r
    <2>1. x = [view EXCEPT !.requests = r]
      BY <1>2 DEF r, Views
    <2> HIDE DEF x
    <2> QED BY <2>1, <1>2, <1>3 DEF Views
  <1> HIDE DEF x, r
  <1>5. /\ ViewOK(x)
        /\ Calm(view, me) => Calm(x, me)
    BY <1>4, PageAlike
  <1>6. /\ ViewOK(y) /\ Kept(x, y) /\ y.shown = x.shown
        /\ Calm(x, me) => Calm(y, me) /\ Shown(y) /\ y.page = x.page
    BY <1>5, RenderedKeeps
  <1> HIDE DEF y
  <1>7. ASSUME Current(view, me, waiting)
        PROVE  Current(y, me, waiting') /\ y.page = view.page
    <2>1. Calm(y, me) /\ Shown(y) /\ y.page = view.page
      BY <1>4, <1>5, <1>6, <1>7 DEF Current
    <2>2. Listed(y)
      BY <1>4, <1>6, <1>7, <2>1, ListedAlike DEF Current, Kept, Listed
    <2>3. y.requests = r /\ y.missed = view.missed /\ y.onContactRequest = view.onContactRequest
          /\ y.onNewSession = view.onNewSession
      BY <1>4, <1>6 DEF Kept
    <2>4. /\ p \notin Range(view.onContactRequest.eventqueue) /\ p \notin view.missed
          /\ Once(view.requests)
      BY <1>3, <1>7 DEF Current, Asked
    <2>5. Asked(y, waiting')
      <3>1. Once(r) /\ Range(r) = Range(view.requests) \ {p}
        BY <2>4, <1>3
      <3>2. PICK q : q = view.onContactRequest.eventqueue
        OBVIOUS
      <3>3. /\ Once(q) /\ Range(view.requests) \cap Range(q) = {}
            /\ view.missed \cap (Range(view.requests) \cup Range(q)) = {}
            /\ waiting = Range(view.requests) \cup Range(q) \cup view.missed
            /\ view.missed # {} => view.onNewSession.listener # None
        BY <1>7, <3>2 DEF Current, Asked
      <3>4. /\ Range(r) \cap Range(q) = {}
            /\ view.missed \cap (Range(r) \cup Range(q)) = {}
            /\ waiting' = Range(r) \cup Range(q) \cup view.missed
        BY <3>1, <3>2, <3>3, <2>4, <1>1
      <3> QED BY <2>3, <3>1, <3>2, <3>3, <3>4 DEF Asked
    <2> QED BY <2>1, <2>2, <2>5 DEF Current
  <1>8. HandlingOK'
    <2>1. p \in Requests
      BY <1>2, <1>3, RangeOf
    <2>2. contacts' \subseteq Peers
      BY <1>1, <2>1 DEF HandlingOK, Requests
    <2> QED BY <1>1, <2>2 DEF HandlingOK
  <1>9. CASE ~accept
    <2>1. view' = y
      BY <1>1, <1>9
    <2> QED BY <2>1, <1>4, <1>6, <1>7, <1>8 DEF Kept
  <1>10. CASE accept
    <2>1. view' = SessionAdded(y, p[1], me)
      BY <1>1, <1>10
    <2>2. p[1] \in Peers
      BY <1>2, <1>3, RangeOf DEF Requests
    <2>3. /\ ViewOK(view')
          /\ view'.requests = y.requests /\ view'.missed = y.missed
          /\ view'.onContactRequest = y.onContactRequest
          /\ view'.onNewSession.listener = y.onNewSession.listener
          /\ Calm(y, me) /\ Shown(y) => Calm(view', me) /\ Shown(view') /\ view'.page = y.page
          /\ Calm(y, me) /\ Listed(y) => Listed(view')
      BY <2>1, <2>2, <1>6, SessionAddedKeeps
    <2>4. ASSUME Current(view, me, waiting) PROVE Asked(view', waiting')
      BY <2>3, <2>4, <1>7, AskedAlike DEF Current
    <2> QED BY <2>3, <2>4, <1>4, <1>6, <1>7, <1>8 DEF Kept, Current
  <1> QED BY <1>9, <1>10

\* Rendering leaves what the page has listed.
LEMMA RenderedCurrent ==
  ASSUME NEW v, ViewOK(v), NEW me \in Owners
  PROVE  LET w == Rendered(v, me) IN
         /\ ViewOK(w) /\ w.missed = v.missed
         /\ \A wait : Calm(v, me) /\ Listed(v) /\ Asked(v, wait)
              => Current(w, me, wait) /\ w.page = v.page
  <1> DEFINE w == Rendered(v, me)
  <1>1. /\ ViewOK(w) /\ Kept(v, w) /\ w.shown = v.shown
        /\ Calm(v, me) => Calm(w, me) /\ Shown(w) /\ w.page = v.page
    BY RenderedKeeps
  <1> HIDE DEF w
  <1>2. ASSUME NEW wait, Calm(v, me), Listed(v), Asked(v, wait)
        PROVE  Current(w, me, wait) /\ w.page = v.page
    <2>1. Listed(w)
      BY <1>1, <1>2, ListedAlike DEF Kept, Listed
    <2>2. Asked(w, wait)
      BY <1>1, <1>2, AskedAlike DEF Kept
    <2> QED BY <2>1, <2>2, <1>1, <1>2 DEF Current
  <1> QED BY <1>1, <1>2 DEF Kept, w

LEMMA SessionTagClickKeeps ==
  ASSUME ViewOK(view), NEW i \in 1..Len(view.sessions), NEW me \in Owners,
         SessionTagClick(i, me)
  PROVE  /\ ViewOK(view') /\ UNCHANGED <<contacts, begun, reading, waiting>>
         /\ view'.missed = view.missed
         /\ Current(view, me, waiting) => Current(view', me, waiting') /\ view'.page = view.page
  <1> DEFINE x == [view EXCEPT !.active = i]
  <1>1. /\ i <= view.shown /\ UNCHANGED <<contacts, begun, reading, waiting>>
        /\ view' = Rendered(x, me)
    BY DEF SessionTagClick, handling
  <1>2. view \in Views /\ i \in Nat /\ view.shown \in 0..Len(view.sessions)
        /\ Len(view.sessions) \in Nat
    BY ViewParts DEF ViewOK, InRange
  <1>3. /\ x \in Views /\ x.requests = view.requests /\ x.page = view.page
        /\ x.shown = view.shown /\ x.active = i
        /\ x.missed = view.missed /\ x.sessions = view.sessions
        /\ x.messages = view.messages /\ x.decrypting = view.decrypting /\ x.self = view.self
        /\ x.cards = view.cards /\ x.onNewSession = view.onNewSession
        /\ x.onContactRequest = view.onContactRequest
    BY <1>2 DEF Views
  <1> HIDE DEF x
  <1>4. ViewOK(x)
    <2>1. x.shown \in 0..Len(x.sessions) /\ x.active \in 0..x.shown
      BY <1>1, <1>2, <1>3
    <2> QED BY <2>1, <1>3 DEF ViewOK, InRange
  <1>5. ASSUME Current(view, me, waiting)
        PROVE  Calm(x, me) /\ Listed(x) /\ Asked(x, waiting)
    <2>1. Calm(x, me)
      BY <1>3, <1>5, CalmAlike DEF Current, Calm
    <2>2. Listed(x)
      BY <1>3, <1>5, ListedAlike DEF Current, Listed
    <2>3. Asked(x, waiting)
      BY <1>3, <1>5, AskedAlike DEF Current
    <2> QED BY <2>1, <2>2, <2>3
  <1>6. /\ ViewOK(view') /\ view'.missed = x.missed
        /\ \A wait : Calm(x, me) /\ Listed(x) /\ Asked(x, wait)
             => Current(view', me, wait) /\ view'.page = x.page
    BY <1>1, <1>4, RenderedCurrent
  <1> QED BY <1>1, <1>3, <1>5, <1>6

LEMMA MenuClickKeeps ==
  ASSUME ViewOK(view), NEW me \in Owners, MenuClick(me)
  PROVE  /\ ViewOK(view') /\ UNCHANGED <<contacts, begun, reading, waiting>>
         /\ view'.missed = view.missed
         /\ Current(view, me, waiting) => Current(view', me, waiting') /\ view'.page = view.page
  <1>1. view' = Rendered(view, me) /\ UNCHANGED <<contacts, begun, reading, waiting>>
    BY DEF MenuClick, handling
  <1>2. /\ ViewOK(view') /\ view'.missed = view.missed
        /\ \A wait : Calm(view, me) /\ Listed(view) /\ Asked(view, wait)
             => Current(view', me, wait) /\ view'.page = view.page
    BY <1>1, RenderedCurrent
  <1> QED BY <1>1, <1>2 DEF Current

LEMMA SendKeeps ==
  ASSUME ViewOK(view), NEW me \in Owners, Send(me)
  PROVE  /\ ViewOK(view') /\ UNCHANGED <<contacts, begun, reading, waiting>>
         /\ view'.missed = view.missed
         /\ me # 0 /\ Current(view, me, waiting)
              => Current(view', me, waiting') /\ view'.page = view.page
  <1>1. /\ view.active # 0 /\ Len(view.messages) < MaxMessages
        /\ view' = MessageAdded(view, view.active, me, "pending")
        /\ UNCHANGED <<contacts, begun, reading, waiting>>
    BY DEF Send, handling
  <1>2. view.active \in 1..Len(view.sessions) /\ "pending" \in MsgState
    BY <1>1, ViewParts DEF MsgState
  <1>3. PICK i : i = view.active
    OBVIOUS
  <1>4. /\ ViewOK(view')
        /\ view'.requests = view.requests /\ view'.missed = view.missed
        /\ view'.onNewSession = view.onNewSession
        /\ view'.onContactRequest = view.onContactRequest
        /\ Len(view'.sessions) = Len(view.sessions) /\ view'.shown = view.shown
        /\ me # 0 /\ Calm(view, me) /\ Shown(view) =>
             Calm(view', me) /\ Shown(view') /\ view'.page = view.page
    BY <1>1, <1>2, <1>3, MessageAddedKeeps
  <1>5. ASSUME me # 0, Current(view, me, waiting) PROVE Listed(view') /\ Asked(view', waiting')
    <2>1. Listed(view')
      BY <1>4, <1>5, ListedAlike DEF Current, Listed
    <2>2. Asked(view', waiting')
      BY <1>1, <1>4, <1>5, AskedAlike DEF Current
    <2> QED BY <2>1, <2>2
  <1> QED BY <1>1, <1>4, <1>5 DEF Current

\* Nothing has happened yet.
Blank(v) ==
    /\ v.sessions = << >> /\ v.messages = << >> /\ v.cards = << >> /\ v.requests = << >>
    /\ v.missed = {} /\ v.onNewSession = E!NewTrigger /\ v.onContactRequest = E!NewTrigger

\* Then it does not matter who the user is.
LEMMA BlankCalm ==
  ASSUME NEW v, Blank(v), NEW one, Calm(v, one), NEW me
  PROVE  Calm(v, me)
  <1>1. 1..Len(v.sessions) = {} /\ 1..Len(v.messages) = {} /\ 1..Len(v.cards) = {}
    BY EmptySeqs DEF Blank
  <1> QED BY <1>1 DEF Calm, CalmSessions, CalmMessages, CalmCards

LEMMA SettleCurrent ==
  ASSUME ViewOK(view), NEW m \in 1..Len(view.messages), NEW st \in MsgState, Settle(m, st)
  PROVE  /\ ViewOK(view') /\ UNCHANGED <<contacts, begun, reading, waiting>>
         /\ view'.missed = view.missed
         /\ \A me : Current(view, me, waiting)
              => Current(view', me, waiting') /\ view'.page = view.page
  <1>1. /\ ViewOK(view') /\ Kept(view, view')
        /\ view'.shown = view.shown /\ view'.page = view.page
        /\ \A me : Calm(view, me) => Calm(view', me)
        /\ Shown(view) => Shown(view')
    BY SettleKeeps
  <1>2. UNCHANGED <<contacts, begun, reading, waiting>>
    BY DEF Settle, handling
  <1>3. ASSUME NEW me, Current(view, me, waiting) PROVE Listed(view') /\ Asked(view', waiting')
    <2>1. Listed(view')
      BY <1>1, <1>3, ListedAlike DEF Current, Kept, Listed
    <2>2. Asked(view', waiting')
      BY <1>1, <1>2, <1>3, AskedAlike DEF Current, Kept
    <2> QED BY <2>1, <2>2
  <1> QED BY <1>1, <1>2, <1>3 DEF Current, Kept

LEMMA DecryptedCurrent ==
  ASSUME ViewOK(view), NEW m \in view.decrypting, NEW right \in BOOLEAN, Decrypted(m, right)
  PROVE  /\ ViewOK(view') /\ UNCHANGED <<contacts, begun, reading, waiting>>
         /\ view'.missed = view.missed
         /\ \A me : right /\ Current(view, me, waiting)
              => Current(view', me, waiting') /\ view'.page = view.page
  <1>1. /\ ViewOK(view') /\ Kept(view, view')
        /\ view'.shown = view.shown
        /\ \A me : right /\ Calm(view, me) /\ Shown(view) =>
             Calm(view', me) /\ Shown(view') /\ view'.page = view.page
    BY DecryptedKeeps
  <1>2. UNCHANGED <<contacts, begun, reading, waiting>>
    BY DEF Decrypted, handling
  <1>3. ASSUME NEW me, right, Current(view, me, waiting)
        PROVE  Listed(view') /\ Asked(view', waiting')
    <2>1. Listed(view')
      BY <1>1, <1>3, ListedAlike DEF Current, Kept, Listed
    <2>2. Asked(view', waiting')
      BY <1>1, <1>2, <1>3, AskedAlike DEF Current, Kept
    <2> QED BY <2>1, <2>2
  <1> QED BY <1>1, <1>2, <1>3 DEF Current, Kept

-----------------------------------------------------------------------------
(* The page as a part of the client.                                       *)

AppCalm ==
    /\ Current(view, user, waiting)
    /\ view.missed # {} => joining
    /\ signedIn = 0 => Blank(view) /\ reading = {}
    /\ finished <=> Mounted(view)

AppViewInv ==
    /\ ViewOK(view) /\ HandlingOK
    /\ app \in {"loading", "startup", "ready"} /\ (finished <=> app = "ready")
    /\ ~overlap => AppCalm

AppInv == AppGuideInv /\ AppViewInv

LEMMA AdvanceEffect ==
  ASSUME NEW handler, NEW buttons, NEW rest, NEW st \in States,
         joining' = joining, activePage \in First..Final,
         Advance(handler, buttons, rest, st)
  PROVE  /\ finished => finished'
         /\ state' \in {st, "connecting"}
         /\ finished' /\ ~finished => activePage = Final
  <1>1. CASE finished
    BY <1>1 DEF Advance, guide
  <1>2. CASE ~finished /\ handler = "null" /\ activePage < Final
    BY <1>2 DEF Advance, Turn
  <1>3. CASE ~finished /\ ~(handler = "null" /\ activePage < Final)
    <2>1. /\ finished' = (handler = "null")
          /\ state' = IF handler = "null" /\ Connects(st) THEN "connecting" ELSE st
      BY <1>3 DEF Advance
    <2>2. ~(activePage < Final) => activePage = Final
      BY DEF First, Final
    <2> QED BY <1>3, <2>1, <2>2 DEF Connects
  <1> QED BY <1>1, <1>2, <1>3

\* What a step of the guide means for the page.
GuideEffect ==
    /\ joining' = joining
    /\ finished => finished'
    /\ ~overlap' =>
         /\ ~overlap
         /\ signedIn # 0 => signedIn' # 0
         /\ user' = user \/ signedIn' = 0
         /\ finished' /\ ~finished /\ state' = "ready" => joining

LEMMA GuideStepEffect ==
  ASSUME GuideInv, GuideStep
  PROVE  GuideEffect
  <1>1. /\ state \in States /\ activePage \in First..Final /\ "registed" \in States
        /\ GuideTypeOK
    BY DEF GuideInv, GuideTypeOK, States
  <1>2. ASSUME Noted, ~overlap' PROVE ~overlap /\ GuideCalm
    BY <1>2, Calming DEF GuideInv
  <1>3. ASSUME NEW kind, NEW k, Awaited(kind, k)
        PROVE  \E t \in BagToSet(tasks) : t.kind = kind
    BY <1>1, <1>3, Away, Jobs
  <1>4. CASE ClickNext
    <2>1. /\ ~finished /\ nextEnable /\ Noted /\ joining' = joining /\ user' = user
          /\ Advance(onNext, Buttons, tasks, state) /\ signedIn' = signedIn
      BY <1>4 DEF ClickNext, link
    <2>2. /\ finished => finished'
          /\ state' \in {state, "connecting"}
      BY <2>1, <1>1, AdvanceEffect
    <2>3. ~overlap' => state # "ready"
      BY <2>1, <1>2 DEF GuideCalm, KeyFits, Settled, ButtonsFit
    <2> QED BY <2>1, <2>2, <2>3, <1>2 DEF GuideEffect
  <1>5. CASE ClickBack
    BY <1>5, <1>1, <1>2 DEF ClickBack, Turn, GuideEffect, link
  <1>6. ASSUME NEW k \in Keys, KeyMade(k) PROVE GuideEffect
    <2>1. Noted /\ Awaited("generate", k) /\ joining' = joining /\ signedIn' = signedIn
          /\ finished' = finished
      BY <1>6 DEF KeyMade, guide, link
    <2>2. ~overlap' => signedIn = 0
      BY <2>1, <1>2, <1>3 DEF GuideInv, Ending, GuideCalm, KeyFits, Settled, TasksFit, First,
                              KeyGen, Final
    <2> QED BY <2>1, <2>2, <1>2 DEF GuideEffect
  <1>7. ASSUME NEW k \in Keys, Generated(k) PROVE GuideEffect
    <2>1. /\ Noted /\ Awaited("armor", k) /\ joining' = joining /\ user' = user
          /\ Advance("null", Buttons, Without("armor", k), state) /\ signedIn' = signedIn
      BY <1>7 DEF Generated, link
    <2>2. /\ finished => finished'
          /\ finished' /\ ~finished => activePage = Final
      BY <2>1, <1>1, AdvanceEffect
    <2>3. ~overlap' => activePage # Final
      BY <2>1, <1>2, <1>3 DEF GuideCalm, TasksFit, First, KeyGen, Final
    <2> QED BY <2>1, <2>2, <2>3, <1>2 DEF GuideEffect
  <1>8. ASSUME NEW k \in Keys, Registered(k) PROVE GuideEffect
    <2>1. /\ Noted /\ joining' = joining /\ user' = user /\ signedIn' = signedIn
          /\ Advance(onNext, [next |-> TRUE, back |-> TRUE], Without("register", k), "registed")
      BY <1>8 DEF Registered, link
    <2>2. /\ finished => finished'
          /\ state' \in {"registed", "connecting"}
      BY <2>1, <1>1, AdvanceEffect
    <2> QED BY <2>1, <2>2, <1>2 DEF GuideEffect
  <1>9. ASSUME NEW k \in Keys, NotRegistered(k) PROVE GuideEffect
    BY <1>9, <1>2 DEF NotRegistered, link, GuideEffect
  <1>10. CASE SignUpCalls
    BY <1>10, <1>2 DEF SignUpCalls, tmcs, link, GuideEffect
  <1>11. CASE QrDrawn
    BY <1>11, <1>2 DEF QrDrawn, tmcs, link, GuideEffect
  <1>12. CASE Rejected
    BY <1>12, <1>2 DEF Rejected, tmcs, link, guide, GuideEffect
  <1>13. CASE Accepted
    <2>1. /\ Noted /\ Awaited("ask", 0) /\ joining' = joining /\ user' = user
          /\ Advance(onNext, [next |-> TRUE, back |-> backEnable], Without("ask", 0), state)
          /\ signedIn' = signedIn
      BY <1>13 DEF Accepted, link
    <2>2. finished => finished'
      BY <2>1, <1>1, AdvanceEffect
    <2>3. ~overlap' => joining
      BY <2>1, <1>2, <1>3 DEF GuideCalm, TasksFit
    <2> QED BY <2>1, <2>2, <2>3, <1>2 DEF GuideEffect
  <1>14. ASSUME NEW kind, Connected(kind) PROVE GuideEffect
    <2>1. signedIn' # 0
      BY <1>1, <1>14, GuideBoundsAssumption DEF Connected, Known, GuideTypeOK, Keys
    <2> QED BY <1>14, <1>2, <2>1 DEF Connected, guide, GuideEffect
  <1>15. ASSUME NEW kind, NotConnected(kind) PROVE GuideEffect
    BY <1>15, <1>2 DEF NotConnected, tmcs, link, GuideEffect
  <1>16. ASSUME NEW k \in Keys, Lapse(k) PROVE GuideEffect
    BY <1>16 DEF Lapse, link, guide, GuideEffect
  <1>17. ASSUME NEW k \in Keys, NotGenerated(k) PROVE GuideEffect
    BY <1>17, <1>2 DEF NotGenerated, tmcs, link, guide, GuideEffect
  <1>18. CASE Disconnected
    BY <1>18, <1>2 DEF Disconnected, guide, GuideEffect
  <1> QED BY <1>4, <1>5, <1>6, <1>7, <1>8, <1>9, <1>10, <1>11, <1>12, <1>13, <1>14, <1>15,
             <1>16, <1>17, <1>18 DEF GuideStep

LEMMA UserIsOwner ==
  ASSUME GuideTypeOK
  PROVE  user \in Owners
  BY DEF GuideTypeOK, Owners

LEMMA OpenedBlank ==
  ASSUME NEW v, ViewOK(v), Blank(v), NEW me
  PROVE  Blank(Opened(v, FALSE, me))
  <1> DEFINE x == [v EXCEPT !.page = "mounted", !.shown = Len(v.sessions), !.active = 0]
  <1>1. v.sessions = << >>
    BY DEF Blank
  <1>2. x.active = 0
    BY DEF ViewOK, Views
  <1>3. Opened(v, FALSE, me) = Rendered(x, me)
    BY <1>1 DEF Opened
  <1>4. Rendered(x, me) = x
    BY <1>2 DEF Rendered
  <1>5. /\ x.sessions = v.sessions /\ x.messages = v.messages /\ x.cards = v.cards
        /\ x.requests = v.requests /\ x.missed = v.missed
        /\ x.onNewSession = v.onNewSession /\ x.onContactRequest = v.onContactRequest
    BY DEF ViewOK, Views
  <1> QED BY <1>3, <1>4, <1>5 DEF Blank

\* The guide is replaced by the page, or not; v is what the step has made of the
\* view before.
LEMMA CompletesKeeps ==
  ASSUME AppInv, AppGuideInv', GuideEffect, NEW v, ViewOK(v), Completes(v),
         ~overlap' =>
            /\ Current(v, user, waiting) /\ (finished <=> Mounted(v))
            /\ v.missed # {} => joining
            /\ signedIn' = 0 => Blank(v)
  PROVE  AppInv'
  <1>1. /\ IF finished' /\ ~finished
           THEN app' = "ready" /\ view' = Opened(v, state' = "ready", user')
           ELSE app' = app /\ view' = v
        /\ contacts' \in {contacts, contacts \cup {Inviter}}
        /\ UNCHANGED <<begun, reading, waiting>>
    BY DEF Completes, handling
  <1>2. HandlingOK'
    BY <1>1, InviterAssumption DEF AppInv, AppViewInv, HandlingOK
  <1>3. app' \in {"loading", "startup", "ready"} /\ (finished' <=> app' = "ready")
    BY <1>1 DEF AppInv, AppViewInv, GuideEffect, GuideInv, AppGuideInv, GuideTypeOK
  <1>4. user' \in Owners
    BY DEF AppGuideInv, GuideInv, GuideTypeOK, Owners
  <1>5. ViewOK(view')
    <2>1. PICK ready \in BOOLEAN : ready = (state' = "ready")
      OBVIOUS
    <2>2. PICK w : w = Opened(v, ready, user')
      OBVIOUS
    <2>3. ViewOK(w)
      BY <2>2, <1>4, OpenedKeeps
    <2>4. view' = w \/ view' = v
      BY <2>1, <2>2, <1>1
    <2> QED BY <2>3, <2>4
  <1>6. ASSUME ~overlap' PROVE AppCalm'
    <2>4. signedIn' = 0 => reading' = {} /\ state' # "ready"
      <3>1. signedIn' = 0 => reading' = {}
        BY <1>1, <1>6 DEF GuideEffect, AppInv, AppViewInv, AppCalm
      <3>2. signedIn' = 0 => state' # "ready"
        BY <1>6 DEF AppGuideInv, GuideInv, GuideCalm, KeyFits
      <3> QED BY <3>1, <3>2
    <2>1. Current(v, user', waiting)
      <3>1. CASE user' = user
        BY <3>1, <1>6
      <3>2. CASE user' # user
        <4>1. Blank(v)
          BY <3>2, <1>6 DEF GuideEffect
        <4>2. Calm(v, user')
          BY <4>1, <1>6, BlankCalm DEF Current
        <4> QED BY <4>2, <1>6 DEF Current
      <3> QED BY <3>1, <3>2
    <2>2. CASE finished' /\ ~finished
      <3>1. view' = Opened(v, state' = "ready", user')
        BY <1>1, <2>2
      <3>2. ~Mounted(v)
        BY <1>6, <2>2
      <3>3. PICK ready \in BOOLEAN : ready = (state' = "ready")
        OBVIOUS
      <3>4. view' = Opened(v, ready, user')
        BY <3>1, <3>3
      <3>5. Current(view', user', waiting) /\ Mounted(view')
        BY <3>2, <3>4, <2>1, <1>4, OpenedKeeps
      <3>6. signedIn' = 0 => Blank(view')
        <4>1. signedIn' = 0 => ~ready /\ Blank(v)
          BY <3>3, <2>4, <1>6
        <4>2. Blank(v) => Blank(Opened(v, FALSE, user'))
          BY OpenedBlank
        <4> QED BY <3>4, <4>1, <4>2
      <3>7. view'.missed # {} => joining'
        <4>1. CASE ready
          BY <4>1, <3>3, <2>2, <1>6 DEF GuideEffect
        <4>2. CASE ~ready
          <5>1. view'.missed = v.missed
            BY <4>2, <3>4, <1>4, OpenedKeeps
          <5> QED BY <5>1, <1>6 DEF GuideEffect
        <4> QED BY <4>1, <4>2
      <3> QED BY <3>3, <3>5, <3>6, <3>7, <2>2, <2>4, <1>1 DEF AppCalm
    <2>3. CASE ~(finished' /\ ~finished)
      <3>1. view' = v /\ finished' = finished /\ joining' = joining
        BY <1>1, <2>3 DEF GuideEffect, AppInv, AppGuideInv, GuideInv, GuideTypeOK
      <3> QED BY <3>1, <2>1, <2>4, <1>1, <1>6 DEF AppCalm
    <2> QED BY <2>2, <2>3
  <1> QED BY <1>2, <1>3, <1>5, <1>6 DEF AppInv, AppViewInv

\* The steps of the guide.
LEMMA GuideSteps ==
  ASSUME AppInv, AppGuideInv',
         Click \/ (\E k \in Keys : KeyTask(k)) \/ PageTask \/ Connection
         \/ WaitConfirmConnected
  PROVE  AppInv'
  <1>1. GuideStep /\ Completes(view)
    BY DEF Click, KeyTask, PageTask, Connection, WaitConfirmConnected, GuideStep
  <1>2. GuideEffect
    BY <1>1, GuideStepEffect DEF AppInv, AppGuideInv
  <1>3. ~overlap' =>
            /\ Current(view, user, waiting) /\ (finished <=> Mounted(view))
            /\ view.missed # {} => joining
            /\ signedIn' = 0 => Blank(view)
    BY <1>2 DEF GuideEffect, AppInv, AppViewInv, AppCalm
  <1>4. ViewOK(view)
    BY DEF AppInv, AppViewInv
  <1> QED BY <1>1, <1>2, <1>3, <1>4, CompletesKeeps

LEMMA InviterAcceptsKeeps ==
  ASSUME AppInv, AppGuideInv', InviterAccepts
  PROVE  AppInv'
  <1> DEFINE v == SessionAdded(view, Inviter, user)
  <1>1. Accepted /\ GuideStep /\ Completes(v)
    BY DEF InviterAccepts, GuideStep
  <1>2. GuideEffect
    BY <1>1, GuideStepEffect DEF AppInv, AppGuideInv
  <1>3. user \in Owners /\ ViewOK(view) /\ GuideTypeOK
    BY UserIsOwner DEF AppInv, AppViewInv, AppGuideInv, GuideInv
  <1>4. /\ ViewOK(v)
        /\ v.requests = view.requests /\ v.missed = view.missed
        /\ v.onContactRequest = view.onContactRequest
        /\ v.onNewSession.listener = view.onNewSession.listener
        /\ Calm(view, user) /\ Shown(view) =>
             Calm(v, user) /\ Shown(v) /\ v.page = view.page
        /\ Calm(view, user) /\ Listed(view) => Listed(v)
    BY <1>3, InviterAssumption, SessionAddedKeeps
  <1> HIDE DEF v
  <1>5. ASSUME ~overlap'
        PROVE  /\ Current(v, user, waiting) /\ (finished <=> Mounted(v))
               /\ v.missed # {} => joining
               /\ signedIn' = 0 => Blank(v)
    <2>1. ~overlap /\ AppCalm
      BY <1>2, <1>5 DEF GuideEffect, AppInv, AppViewInv
    <2>2. signedIn' # 0
      <3>1. PICK t \in BagToSet(tasks) : t.kind = "ask"
        BY <1>1, <1>3, Away, Jobs DEF Accepted
      <3>2. signedIn # 0
        BY <2>1, <3>1 DEF AppInv, AppGuideInv, GuideInv, GuideCalm, TasksFit
      <3> QED BY <3>2, <1>2, <1>5 DEF GuideEffect
    <2>3. Asked(v, waiting)
      BY <1>4, <2>1, AskedAlike DEF AppCalm, Current
    <2> QED BY <1>4, <2>1, <2>2, <2>3 DEF AppCalm, Current, Mounted
  <1> QED BY <1>1, <1>2, <1>4, <1>5, CompletesKeeps

\* The page connects: the calls and texts that the server kept come later.
LEMMA PageConnectedKeeps ==
  ASSUME AppInv, AppGuideInv', PageConnected
  PROVE  AppInv'
  <1> DEFINE v == Listening(view, FALSE, user)
  <1>1. Connected("open") /\ GuideStep /\ Completes(v)
    BY DEF PageConnected, GuideStep
  <1>2. GuideEffect
    BY <1>1, GuideStepEffect DEF AppInv, AppGuideInv
  <1>3. user \in Owners /\ ViewOK(view) /\ GuideTypeOK
    BY UserIsOwner DEF AppInv, AppViewInv, AppGuideInv, GuideInv
  <1>4. /\ ViewOK(v)
        /\ view.onContactRequest.eventqueue = << >> => v.missed = {}
        /\ /\ Current(view, user, waiting) /\ Mounted(view) /\ view.onNewSession.listener = None
           /\ view.onContactRequest.eventqueue = << >>
           => Current(v, user, waiting) /\ v.page = view.page
    BY <1>3, ListeningKeeps
  <1> HIDE DEF v
  <1>5. ASSUME ~overlap'
        PROVE  /\ Current(v, user, waiting) /\ (finished <=> Mounted(v))
               /\ v.missed # {} => joining
               /\ signedIn' = 0 => Blank(v)
    <2>1. ~overlap /\ AppCalm
      BY <1>2, <1>5 DEF GuideEffect, AppInv, AppViewInv
    <2>2. signedIn = 0 /\ finished /\ signedIn' # 0
      <3>1. PICK t \in BagToSet(tasks) : t.kind = "open"
        BY <1>1, <1>3, Away, Jobs DEF Connected
      <3>2. signedIn = 0 /\ finished
        BY <2>1, <3>1 DEF AppInv, AppGuideInv, GuideInv, GuideCalm, TasksFit, Ending
      <3>3. signedIn' # 0
        BY <1>1, <1>3, GuideBoundsAssumption DEF Connected, Known, GuideTypeOK, Keys
      <3> QED BY <3>2, <3>3
    <2>3. Blank(view) /\ Mounted(view)
      BY <2>1, <2>2 DEF AppCalm
    <2>4. view.onNewSession.listener = None /\ view.onContactRequest.eventqueue = << >>
      BY <2>3, Triggers DEF Blank
    <2> QED BY <1>4, <2>1, <2>2, <2>3, <2>4 DEF AppCalm, Mounted
  <1> QED BY <1>1, <1>2, <1>4, <1>5, CompletesKeeps

\* What the page and the library do on their own.
LEMMA AloneKeeps ==
  ASSUME AppInv, AppGuideInv', UNCHANGED <<guideVars, app>>,
         ViewOK(view'), HandlingOK',
         ~overlap =>
            /\ Current(view', user, waiting') /\ view'.page = view.page
            /\ view'.missed = view.missed
            /\ signedIn = 0 => Blank(view') /\ reading' = {}
  PROVE  AppInv'
  BY DEF AppInv, AppViewInv, AppCalm, guideVars, guide, tmcs, link, Mounted

LEMMA ReceivesKeeps ==
  ASSUME AppInv, AppGuideInv', UNCHANGED <<guideVars, app>>, Receives
  PROVE  AppInv'
  <1>1. user \in Owners /\ ViewOK(view) /\ HandlingOK
        /\ (~overlap => Current(view, user, waiting) /\ signedIn # 0)
    BY UserIsOwner DEF AppInv, AppViewInv, AppGuideInv, GuideInv, GuideCalm, KeyFits, AppCalm,
                       Receives
  <1>2. ASSUME NEW r \in Requests, RequestComes(r, user) PROVE AppInv'
    <2>1. HandlingOK' /\ UNCHANGED <<view, contacts, waiting>>
      BY <1>1, <1>2, RequestComesKeeps
    <2> QED BY <1>1, <2>1, AloneKeeps
  <1>3. ASSUME NEW p \in Peers, Arrive(p, user) PROVE AppInv'
    <2>1. /\ ViewOK(view') /\ UNCHANGED <<contacts, begun, reading, waiting>>
          /\ view'.missed = view.missed
          /\ Current(view, user, waiting) => Current(view', user, waiting')
               /\ view'.page = view.page
      BY <1>1, <1>3, ArriveKeeps
    <2> QED BY <1>1, <2>1, AloneKeeps, HandlingSame
  <1> QED BY <1>2, <1>3 DEF Receives

LEMMA PageKeeps ==
  ASSUME AppInv, AppGuideInv', UNCHANGED <<guideVars, app>>, Page
  PROVE  AppInv'
  <1>1. user \in Owners /\ ViewOK(view) /\ HandlingOK
        /\ DOMAIN view.requests = 1..Len(view.requests)
        /\ DOMAIN view.sessions = 1..Len(view.sessions)
        /\ DOMAIN view.messages = 1..Len(view.messages)
    BY UserIsOwner, ViewParts DEF AppInv, AppViewInv, AppGuideInv, GuideInv
  <1>2. ~overlap => AppCalm /\ GuideCalm /\ Ending /\ registered \subseteq Keys
    BY DEF AppInv, AppViewInv, AppGuideInv, GuideInv, GuideTypeOK
  <1>3. ~overlap /\ signedIn = 0 => Blank(view) /\ reading = {}
    BY <1>2 DEF AppCalm
  <1>4. Blank(view) =>
          /\ 1..Len(view.requests) = {} /\ 1..Len(view.sessions) = {}
          /\ 1..Len(view.messages) = {} /\ view.decrypting = {} /\ view.active = 0
    <2> SUFFICES ASSUME Blank(view)
                 PROVE  /\ 1..Len(view.requests) = {} /\ 1..Len(view.sessions) = {}
                        /\ 1..Len(view.messages) = {} /\ view.decrypting = {}
                        /\ view.active = 0
      OBVIOUS
    <2>1. 1..Len(view.requests) = {} /\ 1..Len(view.sessions) = {} /\ 1..Len(view.messages) = {}
      BY EmptySeqs DEF Blank
    <2>2. view.decrypting = {}
      BY <1>1, <2>1, Within
    <2>3. view.active = 0
      BY <1>1, <2>1, ViewParts
    <2> QED BY <2>1, <2>2, <2>3
  <1>5. ASSUME NEW i \in DOMAIN view.requests, NEW accept \in BOOLEAN, Resolve(i, accept, user)
        PROVE  AppInv'
    <2>1. i \in 1..Len(view.requests)
      BY <1>1
    <2>2. /\ ViewOK(view') /\ HandlingOK'
          /\ view'.missed = view.missed
          /\ Current(view, user, waiting) => Current(view', user, waiting')
               /\ view'.page = view.page
      BY <1>1, <1>5, <2>1, ResolveKeeps
    <2>3. ~Blank(view)
      BY <1>4, <2>1
    <2> QED BY <1>2, <1>3, <2>2, <2>3, AloneKeeps, HandlingSame DEF AppCalm
  <1>6. ASSUME NEW i \in DOMAIN view.sessions, SessionTagClick(i, user) PROVE AppInv'
    <2>1. i \in 1..Len(view.sessions)
      BY <1>1
    <2>2. /\ ViewOK(view') /\ UNCHANGED <<contacts, begun, reading, waiting>>
          /\ view'.missed = view.missed
          /\ Current(view, user, waiting) => Current(view', user, waiting')
               /\ view'.page = view.page
      BY <1>1, <1>6, <2>1, SessionTagClickKeeps
    <2>3. ~Blank(view)
      BY <1>4, <2>1
    <2> QED BY <1>1, <1>2, <1>3, <2>2, <2>3, AloneKeeps, HandlingSame DEF AppCalm
  <1>7. CASE MenuClick(user)
    <2>1. /\ ViewOK(view') /\ UNCHANGED <<contacts, begun, reading, waiting>>
          /\ view'.missed = view.missed
          /\ Current(view, user, waiting) => Current(view', user, waiting')
               /\ view'.page = view.page
      BY <1>1, <1>7, MenuClickKeeps
    <2>2. Blank(view) => view' = view
      BY <1>4, <1>7 DEF MenuClick, Rendered
    <2> QED BY <1>1, <1>2, <1>3, <2>1, <2>2, AloneKeeps, HandlingSame DEF AppCalm
  <1>8. CASE Send(user)
    <2>1. /\ ViewOK(view') /\ UNCHANGED <<contacts, begun, reading, waiting>>
          /\ view'.missed = view.missed
          /\ user # 0 /\ Current(view, user, waiting) => Current(view', user, waiting')
               /\ view'.page = view.page
      BY <1>1, <1>8, SendKeeps
    <2>2. ~Blank(view) /\ Mounted(view)
      BY <1>4, <1>8 DEF Send
    <2>3. ~overlap => user # 0
      BY <1>2, <2>2, GuideBoundsAssumption DEF AppCalm, GuideCalm, Ending, KeyFits, Keys
    <2> QED BY <1>1, <1>2, <1>3, <2>1, <2>2, <2>3, AloneKeeps, HandlingSame DEF AppCalm
  <1>9. ASSUME NEW m \in view.decrypting, Decrypted(m, user = signedIn) PROVE AppInv'
    <2>1. PICK right \in BOOLEAN : right = (user = signedIn)
      OBVIOUS
    <2>2. Decrypted(m, right)
      BY <1>9, <2>1
    <2>3. /\ ViewOK(view') /\ UNCHANGED <<contacts, begun, reading, waiting>>
          /\ view'.missed = view.missed
          /\ right /\ Current(view, user, waiting) => Current(view', user, waiting')
               /\ view'.page = view.page
      BY <1>1, <2>2, DecryptedCurrent
    <2>4. ~Blank(view)
      BY <1>4
    <2>5. ~overlap => right
      BY <1>2, <1>3, <2>1, <2>4 DEF GuideCalm, KeyFits
    <2> QED BY <1>1, <1>2, <1>3, <2>3, <2>4, <2>5, AloneKeeps, HandlingSame DEF AppCalm
  <1>10. ASSUME NEW m \in DOMAIN view.messages, NEW s \in {"received", "failed"}, Settle(m, s)
         PROVE  AppInv'
    <2>1. m \in 1..Len(view.messages) /\ s \in MsgState
      BY <1>1 DEF MsgState
    <2>2. /\ ViewOK(view') /\ UNCHANGED <<contacts, begun, reading, waiting>>
          /\ view'.missed = view.missed
          /\ Current(view, user, waiting) => Current(view', user, waiting')
               /\ view'.page = view.page
      BY <1>1, <1>10, <2>1, SettleCurrent
    <2>3. ~Blank(view)
      BY <1>4, <2>1
    <2> QED BY <1>1, <1>2, <1>3, <2>2, <2>3, AloneKeeps, HandlingSame DEF AppCalm
  <1>11. ASSUME NEW d \in reading, RequestRead(d, user) PROVE AppInv'
    <2>1. /\ ViewOK(view') /\ HandlingOK' /\ view'.missed = view.missed
          /\ Current(view, user, waiting) => Current(view', user, waiting')
               /\ view'.page = view.page
      BY <1>1, <1>11, RequestReadKeeps
    <2>2. reading # {}
      OBVIOUS
    <2> QED BY <1>2, <1>3, <2>1, <2>2, AloneKeeps DEF AppCalm
  <1> QED BY <1>5, <1>6, <1>7, <1>8, <1>9, <1>10, <1>11 DEF Page

LEMMA AppInit == Init => AppInv
  <1> SUFFICES ASSUME Init PROVE AppInv
    OBVIOUS
  <1>1. AppGuideInv
    BY AppGuideInit
  <1>2. /\ view.sessions = << >> /\ view.messages = << >> /\ view.cards = << >>
        /\ view.requests = << >> /\ view.missed = {} /\ view.onNewSession = E!NewTrigger
        /\ view.onContactRequest = E!NewTrigger /\ view.page = "hidden" /\ view.shown = 0
        /\ view.active = 0 /\ view.decrypting = {} /\ view.self = TRUE
        /\ contacts = {} /\ begun = {} /\ reading = {} /\ waiting = {}
        /\ app = "loading" /\ finished = FALSE
    BY DEF Init, UIInit, GuideInit
  <1>3. view \in Views
    <2>1. E!NewTrigger \in [listener : {None, "page"}, eventqueue : Seq(Nat)]
      BY NewTriggerTyped
    <2>2. E!NewTrigger \in [listener : {None, "page"}, eventqueue : Seq(Requests)]
      BY NewTriggerTyped
    <2>3. PICK t, e : t = E!NewTrigger /\ e = << >>
      OBVIOUS
    <2>4. /\ e \in Seq(Sessions) /\ e \in Seq(Messages) /\ e \in Seq(Requests) /\ e \in Seq(CardSet)
          /\ t \in [listener : {None, "page"}, eventqueue : Seq(Nat)]
          /\ t \in [listener : {None, "page"}, eventqueue : Seq(Requests)]
      BY <2>1, <2>2, <2>3, EmptySeqs
    <2>5. view = [sessions |-> e, messages |-> e, decrypting |-> {},
                  onNewSession |-> t, onContactRequest |-> t,
                  page |-> "hidden", shown |-> 0, active |-> 0, requests |-> e,
                  missed |-> {}, self |-> TRUE, cards |-> e]
      BY <2>3 DEF Init, UIInit
    <2> QED BY <2>4, <2>5 DEF Views
  <1>4. /\ Len(view.sessions) = 0 /\ Len(view.messages) = 0 /\ Len(view.cards) = 0
        /\ 1..Len(view.sessions) = {} /\ 1..Len(view.cards) = {} /\ 1..Len(view.messages) = {}
        /\ Len(view.requests) = 0 /\ 1..Len(view.requests) = {}
    BY <1>2, EmptySeqs
  <1>5. view.onNewSession.eventqueue = << >> /\ view.onContactRequest.eventqueue = << >>
        /\ view.onNewSession.listener = None /\ view.onContactRequest.listener = None
        /\ 1..Len(view.onNewSession.eventqueue) = {}
    BY <1>2, Triggers, EmptySeqs
  <1>6. InRange(view)
    BY <1>2, <1>4, <1>5, BoundsAssumption DEF InRange
  <1>7. Calm(view, user) /\ Shown(view) /\ Listed(view)
    BY <1>2, <1>4, <1>5 DEF Calm, CalmSessions, CalmMessages, CalmCards, Shown, Listed, Mounted
  <1>8. Asked(view, waiting)
    BY <1>2, <1>5, EmptyRange DEF Asked
  <1>9. AppCalm
    BY <1>2, <1>7, <1>8 DEF AppCalm, Current, Blank, Mounted
  <1>10. HandlingOK
    BY <1>2 DEF HandlingOK
  <1> QED BY <1>1, <1>2, <1>3, <1>6, <1>9, <1>10 DEF AppInv, AppViewInv, ViewOK

LEMMA AppNext == AppInv /\ [Next]_vars => AppInv'
  <1> SUFFICES ASSUME AppInv, [Next]_vars PROVE AppInv'
    OBVIOUS
  <1>1. AppGuideInv'
    BY AppGuideNext DEF AppInv
  <1>2. CASE Loaded
    <2>1. /\ app = "loading" /\ app' = "startup" /\ Fresh /\ signedIn' = signedIn
          /\ UNCHANGED <<finished, user, overlap, view>>
          /\ UNCHANGED <<contacts, begun, reading, waiting>>
      BY <1>2 DEF Loaded, guide, tmcs, link, uiVars, handling, AppInv, AppGuideInv
    <2>2. ~overlap => Blank(view)
      BY <2>1 DEF AppInv, AppViewInv, AppCalm, Fresh
    <2>3. ~overlap => view.missed = {}
      BY <2>2 DEF Blank
    <2> QED BY <1>1, <2>1, <2>3, HandlingSame DEF AppInv, AppViewInv, AppCalm
  <1>3. CASE Click \/ (\E k \in Keys : KeyTask(k)) \/ PageTask \/ Connection
             \/ WaitConfirmConnected
    BY <1>1, <1>3, GuideSteps
  <1>4. CASE InviterAccepts
    BY <1>1, <1>4, InviterAcceptsKeeps
  <1>5. CASE PageConnected
    BY <1>1, <1>5, PageConnectedKeeps
  <1>6. CASE Receives /\ UNCHANGED <<guideVars, app>>
    BY <1>1, <1>6, ReceivesKeeps
  <1>7. CASE Page /\ UNCHANGED <<guideVars, app>>
    BY <1>1, <1>7, PageKeeps
  <1>8. CASE UNCHANGED vars
    <2>1. /\ UNCHANGED <<app, finished, overlap, joining, signedIn, user, view>>
          /\ UNCHANGED <<contacts, begun, reading, waiting>>
      BY <1>8 DEF vars, uiVars, handling, guideVars, guide, tmcs, link
    <2> QED BY <1>1, <2>1, HandlingSame DEF AppInv, AppViewInv, AppCalm
  <1> QED BY <1>2, <1>3, <1>4, <1>5, <1>6, <1>7, <1>8 DEF Next

LEMMA AppAlways == Spec => []AppInv
  BY AppInit, AppNext, PTL DEF Spec

-----------------------------------------------------------------------------
(* What follows.                                                           *)

LEMMA ViewTyped ==
  ASSUME ViewOK(view), HandlingOK
  PROVE  UITypeOK
  <1>1. /\ DOMAIN view.sessions = 1..Len(view.sessions)
        /\ DOMAIN view.messages = 1..Len(view.messages)
        /\ \A i \in 1..Len(view.sessions) :
             view.sessions[i] \in Sessions /\ view.sessions[i].messages \in Seq(Numbers)
        /\ \A m \in 1..Len(view.messages) : view.messages[m] \in Messages
    BY ViewParts
  <1>2. ASSUME NEW i \in 1..Len(view.sessions)
        PROVE  view.sessions[i].with \in Peers /\
               view.sessions[i].messages \in Seq(1..Len(view.messages))
    <2>1. PICK s \in Seq(Numbers) : s = view.sessions[i].messages
      BY <1>1
    <2>2. \A j \in 1..Len(s) : s[j] \in 1..Len(view.messages)
      BY <2>1 DEF ViewOK, InRange
    <2>3. s \in Seq(1..Len(view.messages))
      BY <2>2
    <2> QED BY <1>1, <2>1, <2>3 DEF Sessions
  <1>3. \A m \in 1..Len(view.messages) :
          view.messages[m].onStateChange.listener \in {None} \cup (NoCard..MaxMessages)
    BY <1>1 DEF Messages
  <1>4. /\ view.page \in {"hidden", "mounted", "crashed"}
        /\ view.requests \in Seq(Requests) /\ view.cards \in Seq(CardSet)
        /\ view.decrypting \subseteq 1..Len(view.messages)
        /\ view.shown \in 0..Len(view.sessions) /\ view.active \in 0..view.shown
    BY DEF ViewOK, Views, InRange
  <1> QED BY <1>1, <1>2, <1>3, <1>4 DEF UITypeOK, CardSet, HandlingOK

\* The client keeps its types: every index that a component of the page, an event
\* trigger or the list of what is being decrypted holds leads somewhere, also when
\* tasks of the guide have overlapped or a view has thrown.
THEOREM TypeCorrectness == Spec => []TypeOK
  <1>1. AppInv => TypeOK
    BY ViewTyped DEF AppInv, AppViewInv, AppGuideInv, GuideInv, TypeOK
  <1> QED BY <1>1, AppAlways, PTL

\* The key the user chats with is the one he has registered, and the page can always
\* be rendered: ChatSession.render throws at a message whose sender is not a user of
\* the session, and there is none unless tasks overlapped.
THEOREM ChatsWithHisKey == Spec => []KeyIsRight
  <1>1. AppInv => KeyIsRight
    <2> SUFFICES ASSUME AppInv PROVE KeyIsRight
      OBVIOUS
    <2>1. KeyIsRegistered
      BY DEF AppInv, AppGuideInv, GuideInv, Ending, GuideCalm, KeyFits, KeyIsRegistered
    <2>2. view.page = "crashed" => overlap
      BY DEF AppInv, AppViewInv, AppCalm, Current, Calm
    <2> QED BY <2>1, <2>2 DEF KeyIsRight
  <1> QED BY <1>1, AppAlways, PTL

LEMMA ListedOnce ==
  ASSUME ViewOK(view), Asked(view, waiting)
  PROVE  RequestsAreListed
  <1> DEFINE q == view.onContactRequest.eventqueue
             r == view.requests
  <1>1. q \in Seq(Requests) /\ r \in Seq(Requests) /\ DOMAIN r = 1..Len(r)
    BY ViewTriggers, ViewParts DEF ViewOK
  <1>2. /\ Once(r) /\ Range(r) \cap Range(q) = {}
        /\ view.missed \cap (Range(r) \cup Range(q)) = {}
        /\ waiting = Range(r) \cup Range(q) \cup view.missed
    BY DEF Asked
  <1> HIDE DEF q
  <1> SUFFICES ASSUME NEW p \in Requests
               PROVE  LET places == {i \in DOMAIN r : r[i] = p}
                          elsewhere == {s \in {"queued", "missed"} :
                                          p \in IF s = "queued" THEN Range(q) ELSE view.missed}
                      IN  Cardinality(places) + Cardinality(elsewhere) =
                            IF p \in waiting THEN 1 ELSE 0
    BY DEF RequestsAreListed, q
  <1> DEFINE places == {i \in DOMAIN r : r[i] = p}
             elsewhere == {s \in {"queued", "missed"} :
                             p \in IF s = "queued" THEN Range(q) ELSE view.missed}
  <1>3. IF p \in Range(r) THEN \E i : places = {i} ELSE places = {}
    <2>1. \A x : x \in Range(r) <=> \E i \in 1..Len(r) : r[i] = x
      BY <1>1, RangeOf
    <2>2. CASE p \in Range(r)
      <3>1. PICK i \in 1..Len(r) : r[i] = p
        BY <2>1, <2>2
      <3>2. \A j \in 1..Len(r) : r[j] = p => j = i
        BY <3>1, <1>2 DEF Once
      <3>3. places = {i}
        BY <3>1, <3>2, <1>1
      <3> QED BY <3>3, <2>2
    <2>3. CASE p \notin Range(r)
      BY <2>1, <2>3, <1>1
    <2> QED BY <2>2, <2>3
  <1>4. elsewhere = IF p \in Range(q) THEN {"queued"}
                    ELSE IF p \in view.missed THEN {"missed"} ELSE {}
    BY <1>2
  <1> HIDE DEF places, elsewhere, r
  <1>5. /\ \A x : Cardinality({x}) = 1
        /\ Cardinality({}) = 0
    BY FS_Singleton, FS_EmptySet
  <1>6. Cardinality(places) = IF p \in Range(r) THEN 1 ELSE 0
    BY <1>3, <1>5
  <1>7. Cardinality(elsewhere) = IF p \in Range(q) \cup view.missed THEN 1 ELSE 0
    BY <1>4, <1>5
  <1>8. Cardinality(places) + Cardinality(elsewhere) = IF p \in waiting THEN 1 ELSE 0
    BY <1>2, <1>6, <1>7
  <1> QED BY <1>8 DEF places, elsewhere, r

\* What the client knows is on the page or about to be: every session is listed or
\* its event queued (onNewSession is triggered after the session is pushed), the
\* visible session's messages are on its cards and readable, or being decrypted, and
\* every contact request that waits for an answer is listed once, which needs that a
\* request is read at most once: not that its peer asks only once, nor that he is no
\* contact when it is read, nor that the connection has held meanwhile.  A request is
\* missed only by somebody who has joined over an invite link, unless tasks overlapped.
THEOREM ThePageIsCurrent == Spec => []ViewIsCurrent
  <1>1. AppInv => ViewIsCurrent
    <2> SUFFICES ASSUME AppInv, ~overlap PROVE ViewIsCurrent
      BY DEF ViewIsCurrent
    <2>1. ViewOK(view) /\ AppCalm
      BY DEF AppInv, AppViewInv
    <2>2. /\ Calm(view, user) /\ Shown(view) /\ Listed(view) /\ Asked(view, waiting)
          /\ view.missed # {} => joining
      BY <2>1 DEF AppCalm, Current
    <2>3. SessionsAreListed
      <3>1. /\ view.onNewSession.eventqueue \in Seq(Nat)
            /\ DOMAIN view.sessions = 1..Len(view.sessions)
        BY <2>1, ViewTriggers, ViewParts DEF ViewOK
      <3>2. \A x : x \in Range(view.onNewSession.eventqueue) <=>
              \E n \in 1..Len(view.onNewSession.eventqueue) :
                view.onNewSession.eventqueue[n] = x
        BY <3>1, RangeOf
      <3> QED BY <2>2, <3>1, <3>2 DEF Listed, SessionsAreListed
    <2>4. MessagesAreShown
      <3> SUFFICES ASSUME Mounted(view), view.active # 0,
                          NEW j \in DOMAIN view.sessions[view.active].messages
                   PROVE  LET ms == view.sessions[view.active].messages
                          IN  \/ ms[j] \in view.decrypting
                              \/ /\ j \in DOMAIN view.cards /\ view.cards[j].message = ms[j]
                                 /\ view.messages[ms[j]].body
        BY DEF MessagesAreShown
      <3>1. PICK a \in 1..Len(view.sessions) : a = view.active
        BY <2>1, ViewParts
      <3>2. /\ j \in Places(view, a) /\ j \in Nat /\ j >= 1
            /\ DOMAIN view.cards = 1..Len(view.cards) /\ Len(view.cards) \in Nat
        <4>1. j \in 1..Len(view.sessions[a].messages)
              /\ Len(view.sessions[a].messages) \in Nat
          BY <2>1, <3>1, ViewParts
        <4> QED BY <4>1, <2>1, ViewParts DEF Places
      <3>3. /\ view.sessions[a].onMessage.listener = "ChatSession"
            /\ \/ At(view, a, j) \in view.decrypting
               \/ j <= Len(view.cards) /\ view.cards[j].message = At(view, a, j)
        BY <2>2, <3>1, <3>2 DEF Shown
      <3>4. view.sessions[a].onMessage.eventqueue = << >>
        BY <2>2, <3>3, NoneAssumption DEF Calm, CalmSessions
      <3>5. \/ view.messages[At(view, a, j)].body \/ At(view, a, j) \in view.decrypting
            \/ \E n \in 1..Len(view.sessions[a].onMessage.eventqueue) :
                 view.sessions[a].onMessage.eventqueue[n] = At(view, a, j)
        BY <2>2, <3>2 DEF Calm, CalmSessions
      <3>6. view.messages[At(view, a, j)].body \/ At(view, a, j) \in view.decrypting
        BY <3>4, <3>5, EmptySeqs
      <3> QED BY SMTT(30), <3>1, <3>2, <3>3, <3>6 DEF At
    <2>5. RequestsAreListed
      BY <2>1, <2>2, ListedOnce
    <2> QED BY <2>2, <2>3, <2>4, <2>5 DEF ViewIsCurrent
  <1> QED BY <1>1, AppAlways, PTL

\* A card that was mounted for the message it shows tells the state that message is
\* in, however often the visible session has changed since: the card is still the
\* listener of that message, for its sender's own messages only change state, unless
\* tasks overlapped.
THEOREM TheCardsAreTrue == Spec => []CardsAreTrue
  <1>1. AppInv => CardsAreTrue
    <2> SUFFICES ASSUME AppInv, ~overlap PROVE CardsTell
      BY DEF CardsAreTrue
    <2>1. CalmCards(view) /\ DOMAIN view.cards = 1..Len(view.cards)
      BY ViewParts DEF AppInv, AppViewInv, AppCalm, Current, Calm
    <2> QED BY <2>1 DEF CalmCards, CardsTell
  <1> QED BY <1>1, AppAlways, PTL

=============================================================================
