---------------------------- MODULE Site_proofs ----------------------------
(***************************************************************************)
(* Theorems about the web site in one tab, for any number of tokens asked  *)
(* for at a time, of troubles, of places and of touches.                   *)
(***************************************************************************)
EXTENDS Site, TLAPS

(* The page and the tokens that requests and links are made of. *)
LEMMA PathFacts ==
  /\ Gated \subseteq Paths
  /\ \A path \in Paths : PageAt(path) \in Pages
  /\ {"/", "/login", "/singleshot", "/fbshot"} \subseteq Paths
  /\ "login" \in Pages
  /\ \A path \in Paths, token \in Tokens, by \in {"link", "address", "reload"} :
        Request(path, token, by) \in Requests
  /\ \A path \in Paths, orElse \in BOOLEAN :
        Ask(path, orElse) \in [path : Paths, orElse : BOOLEAN]
<1>1. PageAt("/login") = "login"
  BY DEF PageAt
<1> QED
  BY <1>1 DEF Gated, Paths, Pages, Request, Requests, Ask

LEMMA RequestFacts ==
  ASSUME NEW r \in Requests
  PROVE  r # None /\ r.path \in Paths /\ r.token \in Tokens
BY WebSessionAssumption DEF Requests

LEMMA SessionTypeInit == SessionInit => SessionTypeOK
<1> SUFFICES ASSUME SessionInit PROVE SessionTypeOK
  OBVIOUS
<1>1. address \in Requests /\ address.path = "/login"
  BY DEF SessionInit, Request, Requests, Paths, Tokens
<1>2. page = PageAt(address.path)
  BY <1>1 DEF PageAt, SessionInit
<1>3. failures \in Nat /\ changes \in Nat /\ restarts \in Nat /\ Troubles <= MaxTroubles
  BY WebSessionAssumption DEF SessionInit, Troubles
<1> QED
  BY <1>1, <1>2, <1>3, PathFacts DEF SessionInit, SessionTypeOK

(* What a page is told may send it to the login page or home. *)
LEMMA ToldType ==
  ASSUME SessionTypeOK, NEW u, Told(u)
  PROVE  request' \in Requests \cup {None} /\ wanted' \in Paths
BY PathFacts DEF SessionTypeOK, Told, Go, Tokens

LEMMA StayType ==
  ASSUME SessionTypeOK, StayStep
  PROVE  SessionTypeOK'
<1> USE DEF SessionTypeOK, world, tab, going, Troubles
<1>1. ASSUME NEW path \in Paths, OpenLink(path)
      PROVE  SessionTypeOK'
  BY <1>1, PathFacts DEF OpenLink, Act, Go, Tokens
<1>2. ASSUME NEW path \in Paths, GatedLink(path)
      PROVE  SessionTypeOK'
  <2>1. /\ Act(path) /\ UNCHANGED <<world, tab, loggingOut>>
        /\ \/ Fetch(path, path # "/") /\ UNCHANGED request
           \/ Go(path, "none", "link") /\ UNCHANGED asking
    BY <1>2 DEF GatedLink
  <2>2. CASE Fetch(path, path # "/") /\ UNCHANGED request
    <3>1. Ask(path, path # "/") \in [path : Paths, orElse : BOOLEAN]
      BY PathFacts
    <3>2. asking' \subseteq [path : Paths, orElse : BOOLEAN]
      BY <2>2, <3>1 DEF Fetch
    <3>3. wanted' \in Paths
      BY <2>1 DEF Act
    <3> QED
      BY <2>1, <2>2, <3>2, <3>3
  <2>3. CASE Go(path, "none", "link") /\ UNCHANGED asking
    BY <2>1, <2>3, PathFacts DEF Act, Go, Tokens
  <2> QED
    BY <2>1, <2>2, <2>3
<1>3. ASSUME NEW path \in Paths, Visit(path)
      PROVE  SessionTypeOK'
  BY <1>3, PathFacts DEF Visit, Act, Go, Tokens
<1>4. CASE Reload
  <2>1. address.path \in Paths /\ address.token \in Tokens
    BY RequestFacts
  <2> QED
    BY <1>4, <2>1, PathFacts DEF Reload, Act, Go
<1>5. CASE SignIn
  <2>1. address.path \in Paths
    BY RequestFacts
  <2>2. AfterLogin(address.path) \in Paths
    BY <2>1, PathFacts DEF AfterLogin
  <2> QED
    BY <1>5, <2>1, <2>2, PathFacts DEF SignIn, Act, Fetch, User
<1>6. CASE SelectGame
  BY <1>6, PathFacts DEF SelectGame, Act, Fetch
<1>7. CASE LogOut
  BY <1>7, PathFacts DEF LogOut, Act
<1>8. CASE AuthKnown
  BY <1>8, ToldType DEF AuthKnown, User
<1>9. CASE ScriptsArrive
  BY <1>9, ToldType DEF ScriptsArrive
<1>10. CASE SignOutDone
  BY <1>10, ToldType DEF SignOutDone, User
<1>11. ASSUME NEW a \in asking, TokenArrives(a)
       PROVE  SessionTypeOK'
  BY <1>11, PathFacts DEF TokenArrives, Go, Tokens
<1>12. ASSUME NEW a \in asking, TokenFails(a)
       PROVE  SessionTypeOK'
  BY <1>12, PathFacts, WebSessionAssumption DEF TokenFails, Go, Tokens
<1>13. CASE ChangeElsewhere
  BY <1>13, ToldType, WebSessionAssumption DEF ChangeElsewhere, User
<1>14. CASE ServerRestarts
  <2>1. restarts' \in Nat /\ Troubles' <= MaxTroubles
    BY <1>14, WebSessionAssumption DEF ServerRestarts
  <2> QED
    BY <1>14, <2>1 DEF ServerRestarts
<1>15. CASE Expire
  <2>1. address' \in Requests /\ address'.path = address.path
    BY <1>15 DEF Expire, Requests, Tokens
  <2> QED
    BY <1>15, <2>1 DEF Expire
<1> QED
  BY <1>1, <1>2, <1>3, <1>4, <1>5, <1>6, <1>7, <1>8, <1>9, <1>10, <1>11, <1>12,
     <1>13, <1>14, <1>15 DEF StayStep, UserGoes, Waiting, TokenStep

LEMMA ServeType ==
  ASSUME SessionTypeOK, Serve
  PROVE  SessionTypeOK'
<1>1. request \in Requests /\ request.path \in Paths
  BY RequestFacts DEF Serve, SessionTypeOK
<1>2. Served \in Pages /\ (Served # PageAt(request.path) => Served = "login" /\ request.path \in Gated)
  BY <1>1, PathFacts DEF Served
<1>3. viewsMounted' \in BOOLEAN
  BY DEF Serve, Mounts, SessionTypeOK
<1> QED
  BY <1>1, <1>2, <1>3 DEF Serve, SessionTypeOK, Troubles

(* Places on a canvas. *)
LEMMA ShotTypeInit == ShotInit => ShotTypeOK
BY SingleShotAssumption DEF ShotInit, ShotTypeOK, Things, Cleared

LEMMA OpenedType == Opened => ShotTypeOK'
BY SingleShotAssumption DEF Opened, ShotTypeOK, Things, Cleared

LEMMA MeasureType ==
  ASSUME ShotTypeOK, Resize \/ \E pos \in Places : Touch(pos)
  PROVE  ShotTypeOK'
<1>1. CASE Resize
  BY <1>1, SingleShotAssumption DEF Resize, Cleared, appVars, ShotTypeOK, Measures, Things
<1>2. ASSUME NEW pos \in Places, Touch(pos)
      PROVE  ShotTypeOK'
  <2>1. /\ touches \in Nat /\ touches < MaxTouches /\ touches' = touches + 1
        /\ canvas \in 0 .. touches /\ canvas' = canvas /\ MaxTouches \in Nat
    BY <1>2, SingleShotAssumption DEF Touch, ShotTypeOK
  <2>2. <<pos, canvas>> \in Measures
    BY <2>1 DEF Measures
  <2>3. touches' \in 0 .. MaxTouches /\ canvas' \in 0 .. touches'
    BY <2>1
  <2>4. ASSUME ClickPuck(pos)
        PROVE  /\ lastPuckPos' \in Measures \cup {Unset} /\ lastShot' \in Measures \cup {Unset}
               /\ lastWViewable' \in {m \in Measures : m[1] \notin Behind} \cup {Unset}
               /\ goalieNums' = goalieNums
               /\ drawn' \in [puck : Measures \cup {Unset}, goalie : Measures \cup {Unset}]
    BY <2>2, <2>4 DEF ClickPuck, DrawPuck, ShotTypeOK
  <2>5. ASSUME ClickGoalie(pos)
        PROVE  /\ lastPuckPos' = lastPuckPos /\ lastShot' = lastShot
               /\ lastWViewable' = lastWViewable
               /\ goalieNums' \in [shot : Measures \cup {Unset}, width : Measures \cup {Unset},
                                   goalie : Measures]
               /\ drawn' \in [puck : Measures \cup {Unset}, goalie : Measures \cup {Unset}]
    BY <2>2, <2>5 DEF ClickGoalie, DrawGoalie, ShotTypeOK
  <2>6. whichThingPlaced' \in Things
    BY <1>2 DEF Touch, Other, Things
  <2>7. /\ goalpuck' \in Things
        /\ {puckPos', shotdist', tSize', goaliedist', pView', gView'} \subseteq InRink \cup {Unset}
    BY <1>2 DEF Touch, TouchNothing, TouchPuck, TouchGoalie, Other, Things, ShotTypeOK
  <2>8. labels' \in [pos : InRink \cup {Unset}, dist : InRink \cup {Unset},
                    size : InRink \cup {Unset}, goalie : InRink \cup {Unset}]
    BY <1>2, <2>7 DEF Touch, Goalienums
  <2>9. ClickPuck(pos) \/ ClickGoalie(pos)
    BY <1>2 DEF Touch
  <2> QED
    BY <2>3, <2>4, <2>5, <2>6, <2>7, <2>8, <2>9 DEF ShotTypeOK
<1> QED
  BY <1>1, <1>2

LEMMA TypeInit == Init => TypeOK
BY SessionTypeInit, ShotTypeInit DEF Init, TypeOK

LEMMA TypeNext == TypeOK /\ [Next]_vars => TypeOK'
<1> SUFFICES ASSUME TypeOK, [Next]_vars PROVE TypeOK'
  OBVIOUS
<1>1. CASE Stay
  BY <1>1, StayType DEF Stay, TypeOK, ShotTypeOK, shotVars, pageVars, appVars
<1>2. CASE Arrive
  BY <1>2, ServeType, OpenedType DEF Arrive, TypeOK
<1>3. CASE Measure
  <2>1. SessionTypeOK'
    BY <1>3 DEF Measure, TypeOK, SessionTypeOK, sessionVars, world, tab, going, Troubles
  <2> QED
    BY <1>3, <2>1, MeasureType DEF Measure, TypeOK
<1>4. CASE UNCHANGED vars
  <2>1. UNCHANGED sessionVars /\ UNCHANGED shotVars
    BY <1>4 DEF vars
  <2>2. SessionTypeOK'
    BY <2>1 DEF TypeOK, SessionTypeOK, sessionVars, world, tab, going, Troubles
  <2>3. ShotTypeOK'
    BY <2>1 DEF TypeOK, ShotTypeOK, shotVars, pageVars, appVars
  <2> QED
    BY <2>2, <2>3 DEF TypeOK
<1> QED
  BY <1>1, <1>2, <1>3, <1>4 DEF Next

(* Whatever a tab is asked for, and whenever the server answers, the page  *)
(* it shows is one the server has, and is the one of its address or the    *)
(* login page in its place.                                                *)
THEOREM SiteTypes == Spec => []TypeOK
BY TypeInit, TypeNext, PTL DEF Spec

----------------------------------------------------------------------------
(* The pages' scripts.  A page of the late directory that is still waiting *)
(* for its scripts was sent by a handler that mounted the directory, and   *)
(* only a restart unmounts it.                                             *)
ScriptsInv ==
    /\ restarts \in Nat
    /\ scripts = "loading" => viewsMounted \/ restarts > 0
    /\ PagesGetTheirScripts

LEMMA ScriptsNext == ScriptsInv /\ [Next]_vars => ScriptsInv'
<1> SUFFICES ASSUME ScriptsInv, [Next]_vars PROVE ScriptsInv'
  OBVIOUS
<1> USE DEF ScriptsInv, PagesGetTheirScripts, world, tab, going
<1>1. ASSUME UserGoes
      PROVE  UNCHANGED <<restarts, scripts, viewsMounted>>
  BY <1>1 DEF UserGoes, OpenLink, GatedLink, Visit, Reload, SignIn, SelectGame, LogOut
<1>2. ASSUME AuthKnown \/ SignOutDone \/ TokenStep \/ ChangeElsewhere \/ Expire
      PROVE  UNCHANGED <<restarts, scripts, viewsMounted>>
  BY <1>2 DEF AuthKnown, SignOutDone, TokenStep, TokenArrives, TokenFails, ChangeElsewhere, Expire
<1>3. CASE ScriptsArrive
  BY <1>3 DEF ScriptsArrive
<1>4. CASE ServerRestarts
  BY <1>4 DEF ServerRestarts
<1>5. CASE Arrive
  <2>1. Served \in Views => viewsMounted'
    BY <1>5 DEF Arrive, Serve, Mounts
  <2> QED
    BY <1>5, <2>1 DEF Arrive, Serve
<1>6. CASE Measure \/ UNCHANGED vars
  BY <1>6 DEF Measure, vars, sessionVars
<1> QED
  BY <1>1, <1>2, <1>3, <1>4, <1>5, <1>6 DEF Next, Stay, StayStep, Waiting

(* A page that was sent finds its scripts unless the server was restarted, *)
(* whichever gated page was asked for first, and however late the scripts  *)
(* are asked for.                                                          *)
THEOREM ScriptsAreMounted == Spec => []PagesGetTheirScripts
<1>1. Init => ScriptsInv
  BY DEF Init, SessionInit, ScriptsInv, PagesGetTheirScripts
<1>2. ScriptsInv => PagesGetTheirScripts
  BY DEF ScriptsInv
<1> QED
  BY <1>1, <1>2, ScriptsNext, PTL DEF Spec

----------------------------------------------------------------------------
(* The single shot screens.  The distance kept is always that of the last  *)
(* puck, and the width, too, exactly if the puck was in front of the line; *)
(* a goalie is drawn with that puck only.  In the app the five variables   *)
(* follow the two images.                                                  *)
ShotInv ==
    /\ lastShot = lastPuckPos
    /\ lastPuckPos # Unset => (lastWViewable = lastPuckPos <=> lastPuckPos[1] \notin Behind)
    /\ lastWViewable # Unset => lastWViewable[1] \notin Behind
    /\ whichThingPlaced = "goalie" => lastPuckPos # Unset
    /\ drawn.goalie # Unset =>
          /\ lastPuckPos # Unset
          /\ drawn.puck = lastPuckPos
          /\ goalieNums = [shot |-> lastShot, width |-> lastWViewable, goalie |-> drawn.goalie]
    /\ puckPos = pView /\ shotdist = pView /\ tSize = pView /\ goaliedist = gView
    /\ AppNumbersFit

LEMMA TouchKeepsNumbers ==
  ASSUME ShotTypeOK, ShotInv, NEW pos \in Places, Touch(pos)
  PROVE  ShotInv'
<1> DEFINE m == <<pos, canvas>>
<1>1. m # Unset /\ m[1] = pos
  <2>1. canvas \in 0 .. MaxTouches
    BY SingleShotAssumption DEF ShotTypeOK
  <2>2. m \in Measures
    BY <2>1 DEF Measures
  <2> QED
    BY <2>2, SingleShotAssumption
<1>2. /\ puckPos' = pView' /\ shotdist' = pView' /\ tSize' = pView' /\ goaliedist' = gView'
      /\ AppNumbersFit'
  BY DEF Touch, TouchNothing, TouchPuck, TouchGoalie, Goalienums, AppNumbersFit, ShotInv
<1>3. CASE ClickPuck(pos)
  <2>1. whichThingPlaced' = "goalie"
    BY <1>3 DEF Touch, ClickPuck, Other
  <2>2. drawn'.goalie = Unset
    BY <1>3 DEF ClickPuck, DrawPuck
  <2>3. lastWViewable[1] \in Behind => lastWViewable = Unset
    BY DEF ShotInv
  <2>4. lastWViewable' = lastPuckPos' <=> lastPuckPos'[1] \notin Behind
    BY <1>1, <1>3, <2>3 DEF ClickPuck
  <2> QED
    BY <1>1, <1>2, <1>3, <2>1, <2>2, <2>4 DEF ClickPuck, ShotInv
<1>4. CASE ClickGoalie(pos)
  <2>1. drawn' = [puck |-> lastPuckPos, goalie |-> m] /\ lastPuckPos # Unset
    BY <1>4 DEF ClickGoalie, DrawGoalie, ShotInv
  <2> QED
    BY <1>2, <1>4, <2>1 DEF ClickGoalie, ShotInv
<1> QED
  BY <1>3, <1>4 DEF Touch

LEMMA ShotNext == TypeOK /\ ShotInv /\ [Next]_vars => ShotInv'
<1> SUFFICES ASSUME TypeOK, ShotInv, [Next]_vars PROVE ShotInv'
  OBVIOUS
<1>1. ASSUME UNCHANGED <<pageVars, appVars>>
      PROVE  ShotInv'
  BY <1>1 DEF pageVars, appVars, ShotInv, AppNumbersFit
<1>2. CASE Stay \/ UNCHANGED vars
  BY <1>1, <1>2 DEF Stay, vars, shotVars
<1>3. CASE Arrive
  BY <1>3 DEF Arrive, Opened, Cleared, ShotInv, AppNumbersFit
<1>4. CASE Measure
  <2>1. CASE Resize
    BY <2>1 DEF Resize, Cleared, appVars, ShotInv, AppNumbersFit
  <2> QED
    BY <1>4, <2>1, TouchKeepsNumbers DEF Measure, TypeOK
<1> QED
  BY <1>2, <1>3, <1>4 DEF Next

(* The numbers of both screens are of the puck and the goalie drawn there, *)
(* in whatever order places are touched and however often the window is    *)
(* resized or the page opened again, with one exception: the width the     *)
(* page uses for a puck on or behind the goal line is an earlier puck's.   *)
THEOREM NumbersAreRight == Spec => []NumbersFit
<1>1. Init => ShotInv
  BY DEF Init, ShotInit, Cleared, ShotInv, AppNumbersFit
<1>2. ShotInv => NumbersFit
  BY DEF ShotInv, NumbersFit, PageNumbersFit
<1> QED
  BY <1>1, <1>2, ShotNext, SiteTypes, PTL DEF Spec

----------------------------------------------------------------------------
(* Where a user who waits gets.  Nothing is asked for while the page is    *)
(* being loaded; what is asked for, and then requested, is what was wanted *)
(* last, except that a request the server never answers may be left over   *)
(* from before.                                                            *)
LoadingIsIdle ==
    known = "unknown" \/ scripts = "loading" =>
        asking = {} /\ loggingOut = "no" /\ request = None

OneThingAtATime ==
    /\ asking # {} \/ loggingOut = "pending" => request = None \/ Stuck
    /\ asking # {} => loggingOut # "pending"
    /\ loggingOut = "pending" => wanted = "/" /\ page = "accountsettings"
    /\ \A a \in asking : a.path = wanted /\ asking = {a}

OnTheWay ==
    asking = {} /\ loggingOut # "pending" =>
        wanted = IF request = None THEN address.path ELSE request.path

(* The login page in place of another shows that nobody was signed in when *)
(* the link was followed; a sign-in asks for a token at once.              *)
StrangersSignIn ==
    /\ request # None /\ request.by = "link" /\ request.token = "none"
          /\ request.path \in Gated => ~signedIn
    /\ page # PageAt(address.path) /\ address.by = "link" =>
          ~signedIn \/ asking # {} \/ (request # None /\ request.token = "fresh")

WayInv ==
    patient /\ failures = 0 /\ changes = 0 =>
        LoadingIsIdle /\ OneThingAtATime /\ OnTheWay /\ StrangersSignIn

LEMMA GoFacts ==
  ASSUME NEW path \in Paths, NEW token \in Tokens, NEW by \in {"link", "address", "reload"},
         Go(path, token, by)
  PROVE  /\ request' # None
         /\ request'.path = path /\ request'.token = token /\ request'.by = by
<1>1. request' = Request(path, token, by) /\ Request(path, token, by) \in Requests
  BY PathFacts DEF Go
<1> QED
  BY <1>1, RequestFacts DEF Request

LEMMA UserKeepsWay ==
  ASSUME SessionTypeOK, WayInv, UserGoes
  PROVE  WayInv'
<1> SUFFICES ASSUME patient', failures' = 0, changes' = 0
             PROVE  (LoadingIsIdle /\ OneThingAtATime /\ OnTheWay /\ StrangersSignIn)'
  BY DEF WayInv
<1>1. /\ patient /\ failures = 0 /\ changes = 0
      /\ LoadingIsIdle /\ OneThingAtATime /\ OnTheWay /\ StrangersSignIn
  BY DEF WayInv, UserGoes, OpenLink, GatedLink, Visit, Reload, SignIn, SelectGame, LogOut, world
<1>2. Settled /\ (request = None \/ Stuck)
  BY <1>1 DEF UserGoes, OpenLink, GatedLink, Visit, Reload, SignIn, SelectGame, LogOut, Act
<1>3. asking = {} /\ known # "unknown" /\ scripts # "loading" /\ loggingOut # "pending"
  BY <1>2 DEF Settled
<1> USE DEF LoadingIsIdle, OneThingAtATime, OnTheWay, StrangersSignIn, world, tab, going
(* A request the user makes without a token. *)
<1>4. ASSUME NEW path \in Paths, NEW token \in Tokens, NEW by \in {"link", "address", "reload"},
             Go(path, token, by), wanted' = path,
             UNCHANGED <<world, tab, asking, loggingOut>>,
             token = "none" /\ by = "link" /\ path \in Gated => ~signedIn
      PROVE  (LoadingIsIdle /\ OneThingAtATime /\ OnTheWay /\ StrangersSignIn)'
  <2>1. /\ request' # None
        /\ request'.path = path /\ request'.token = token /\ request'.by = by
    BY <1>4, GoFacts
  <2>2. StrangersSignIn'
    <3>1. page # PageAt(address.path) /\ address.by = "link" => ~signedIn
      BY <1>1, <1>2, <1>3 DEF Stuck
    <3> QED
      BY <1>4, <2>1, <3>1
  <2> QED
    BY <1>1, <1>3, <1>4, <2>1, <2>2
(* A token the user makes the page fetch. *)
<1>5. ASSUME NEW path, NEW orElse, Fetch(path, orElse), wanted' = path,
             UNCHANGED <<page, address, scripts, request, loggingOut>>,
             known' # "unknown",
             signedIn' # signedIn => signedIn'
      PROVE  (LoadingIsIdle /\ OneThingAtATime /\ OnTheWay /\ StrangersSignIn)'
  <2>1. asking' = {Ask(path, orElse)} /\ Ask(path, orElse).path = path
    BY <1>3, <1>5 DEF Fetch, Ask
  <2>2. request' = None \/ Stuck'
    BY <1>2, <1>5 DEF Stuck
  <2>3. request # None => request.token # "none"
    BY <1>2 DEF Stuck
  <2> QED
    BY <1>1, <1>3, <1>5, <2>1, <2>2, <2>3
<1>6. ASSUME NEW path \in Paths, OpenLink(path)
      PROVE  (LoadingIsIdle /\ OneThingAtATime /\ OnTheWay /\ StrangersSignIn)'
  <2>1. path \notin Gated
    BY <1>6 DEF OpenLink, Gated
  <2> QED
    BY <1>1, <1>4, <1>6, <2>1 DEF OpenLink, Act, Tokens
<1>7. ASSUME NEW path \in Paths, GatedLink(path)
      PROVE  (LoadingIsIdle /\ OneThingAtATime /\ OnTheWay /\ StrangersSignIn)'
  <2>1. wanted' = path /\ UNCHANGED <<world, tab, loggingOut>>
    BY <1>1, <1>7 DEF GatedLink, Act
  <2>2. CASE known = "user" /\ Fetch(path, path # "/") /\ UNCHANGED request
    BY <1>5, <2>1, <2>2
  <2>3. CASE known # "user" /\ Go(path, "none", "link") /\ UNCHANGED asking
    <3>1. ~signedIn
      BY <1>3, <2>3 DEF SessionTypeOK, User
    <3> QED
      BY <1>4, <2>1, <2>3, <3>1 DEF Tokens
  <2> QED
    BY <1>7, <2>2, <2>3 DEF GatedLink
<1>8. ASSUME NEW path \in Paths, Visit(path)
      PROVE  (LoadingIsIdle /\ OneThingAtATime /\ OnTheWay /\ StrangersSignIn)'
  BY <1>1, <1>4, <1>8 DEF Visit, Act, Tokens
<1>9. CASE Reload
  <2>1. address.path \in Paths /\ address.token \in Tokens
    BY RequestFacts DEF SessionTypeOK
  <2> QED
    BY <1>1, <1>4, <1>9, <2>1 DEF Reload, Act
<1>10. CASE SignIn
  <2>1. wanted' = AfterLogin(address.path)
    BY <1>1, <1>10 DEF SignIn, Act, AfterLogin
  <2>2. Fetch(AfterLogin(address.path), FALSE)
    BY <1>10 DEF SignIn
  <2> QED
    BY <1>5, <1>10, <2>1, <2>2 DEF SignIn
<1>11. CASE SelectGame
  BY <1>1, <1>3, <1>5, <1>11 DEF SelectGame, Act
<1>12. CASE LogOut
  <2>1. wanted' = "/" /\ loggingOut' = "pending" /\ page = "accountsettings"
    BY <1>1, <1>12 DEF LogOut, Act
  <2>2. request' = None \/ Stuck'
    BY <1>2, <1>12 DEF LogOut, Stuck
  <2> QED
    BY <1>1, <1>3, <1>12, <2>1, <2>2 DEF LogOut
<1> QED
  BY <1>6, <1>7, <1>8, <1>9, <1>10, <1>11, <1>12 DEF UserGoes

LEMMA RestKeepsWay ==
  ASSUME SessionTypeOK, WayInv, Waiting \/ ChangeElsewhere \/ ServerRestarts \/ Expire
  PROVE  WayInv'
<1> SUFFICES ASSUME patient', failures' = 0, changes' = 0
             PROVE  (LoadingIsIdle /\ OneThingAtATime /\ OnTheWay /\ StrangersSignIn)'
  BY DEF WayInv
<1>1. ASSUME ChangeElsewhere
      PROVE  FALSE
  BY <1>1 DEF ChangeElsewhere, SessionTypeOK
<1>2. ASSUME NEW a, TokenFails(a)
      PROVE  FALSE
  BY <1>2 DEF TokenFails, SessionTypeOK
<1>3. /\ patient /\ failures = 0 /\ changes = 0
      /\ LoadingIsIdle /\ OneThingAtATime /\ OnTheWay /\ StrangersSignIn
  BY <1>1, <1>2 DEF WayInv, Waiting, TokenStep, AuthKnown, ScriptsArrive, SignOutDone, TokenArrives,
     ServerRestarts, Expire, world
<1> USE DEF LoadingIsIdle, OneThingAtATime, OnTheWay, StrangersSignIn, world, tab, going
(* A page that is told of no user while it waits for nothing. *)
<1>4. ASSUME NEW u, Told(u), request = None, asking = {}, loggingOut = "no",
             u = "nobody" => known' # "unknown",
             UNCHANGED <<signedIn, page, address, asking, loggingOut>>
      PROVE  (LoadingIsIdle /\ OneThingAtATime /\ OnTheWay /\ StrangersSignIn)'
  <2>1. page # PageAt(address.path) /\ address.by = "link" => ~signedIn
    BY <1>3, <1>4
  <2>2. CASE u = "nobody" /\ page = "shottracker" /\ scripts' = "loaded"
    <3>1. Go("/login", "none", "link") /\ wanted' = "/login" /\ known' # "unknown"
      BY <1>3, <1>4, <2>2 DEF Told
    <3>2. request' # None /\ request'.path = "/login" /\ "/login" \notin Gated
      BY <3>1, GoFacts, PathFacts DEF Tokens, Gated
    <3> QED
      BY <1>4, <2>1, <2>2, <3>1, <3>2
  <2>3. CASE request' = request /\ wanted' = wanted
    BY <1>3, <1>4, <2>1, <2>3
  <2> QED
    BY <1>4, <2>2, <2>3 DEF Told
<1>5. CASE AuthKnown
  <2>1. request = None /\ asking = {} /\ loggingOut = "no"
    BY <1>3, <1>5 DEF AuthKnown
  <2>2. known' # "unknown"
    BY <1>5 DEF AuthKnown, User
  <2> QED
    BY <1>4, <1>5, <2>1, <2>2 DEF AuthKnown
<1>6. CASE ScriptsArrive
  <2>1. request = None /\ asking = {} /\ loggingOut = "no"
    BY <1>3, <1>6 DEF ScriptsArrive
  <2> QED
    BY <1>4, <1>6, <2>1 DEF ScriptsArrive
<1>7. CASE SignOutDone
  <2>1. asking = {} /\ page = "accountsettings" /\ scripts # "loading" /\ loggingOut = "pending"
    BY <1>3, <1>7 DEF SignOutDone
  <2>2. Go("/", "none", "link") /\ wanted' = "/"
    BY <1>3, <1>7, <2>1 DEF SignOutDone, Told
  <2>3. request' # None /\ request'.path = "/" /\ "/" \notin Gated
    BY <2>2, GoFacts, PathFacts DEF Tokens, Gated
  <2> QED
    BY <1>7, <2>1, <2>2, <2>3 DEF SignOutDone
<1>8. ASSUME NEW a \in asking, TokenArrives(a)
      PROVE  (LoadingIsIdle /\ OneThingAtATime /\ OnTheWay /\ StrangersSignIn)'
  <2>1. a.path \in Paths /\ a.path = wanted
    BY <1>3 DEF SessionTypeOK
  <2>2. request' # None /\ request'.path = wanted /\ request'.token = "fresh"
    BY <1>8, <2>1, GoFacts DEF TokenArrives, Tokens
  <2>3. asking' = {}
    BY <1>3, <1>8 DEF TokenArrives
  <2> QED
    BY <1>3, <1>8, <2>2, <2>3 DEF TokenArrives
<1>9. CASE ServerRestarts
  BY <1>3, <1>9 DEF ServerRestarts, Stuck
<1>10. CASE Expire
  <2>1. address'.path = address.path /\ address'.by = address.by
    BY <1>10 DEF Expire, SessionTypeOK, Requests
  <2> QED
    BY <1>3, <1>10, <2>1 DEF Expire, Stuck
<1> QED
  BY <1>1, <1>2, <1>5, <1>6, <1>7, <1>8, <1>9, <1>10 DEF Waiting, TokenStep

LEMMA ServeKeepsWay ==
  ASSUME SessionTypeOK, WayInv, Serve
  PROVE  WayInv'
<1> SUFFICES ASSUME patient', failures' = 0, changes' = 0
             PROVE  (LoadingIsIdle /\ OneThingAtATime /\ OnTheWay /\ StrangersSignIn)'
  BY DEF WayInv
<1>1. LoadingIsIdle /\ OneThingAtATime /\ OnTheWay /\ StrangersSignIn
  BY DEF WayInv, Serve
<1>2. /\ asking = {} /\ loggingOut # "pending" /\ wanted = request.path
      /\ asking' = {} /\ loggingOut' = "no" /\ request' = None /\ address' = request
      /\ signedIn' = signedIn /\ wanted' = wanted /\ page' = Served /\ request # None
  BY <1>1 DEF Serve, OneThingAtATime, OnTheWay
<1>3. page' # PageAt(address'.path) /\ address'.by = "link" => ~signedIn'
  BY <1>1, <1>2 DEF Served, StrangersSignIn
<1> QED
  BY <1>2, <1>3 DEF LoadingIsIdle, OneThingAtATime, OnTheWay, StrangersSignIn

LEMMA WayNext == TypeOK /\ WayInv /\ [Next]_vars => WayInv'
<1> SUFFICES ASSUME TypeOK, WayInv, [Next]_vars PROVE WayInv'
  OBVIOUS
<1>1. CASE UNCHANGED sessionVars
  BY <1>1 DEF sessionVars, world, tab, going, WayInv, LoadingIsIdle, OneThingAtATime, OnTheWay,
     StrangersSignIn, Stuck
<1> QED
  BY <1>1, UserKeepsWay, RestKeepsWay, ServeKeepsWay
     DEF Next, Stay, StayStep, Arrive, Measure, vars, TypeOK

(* A user who waits ends where they wanted to be, by any path of links,    *)
(* addresses, reloads, sign-ins, requests left unanswered, expired tokens  *)
(* and restarts; only a stranger is shown the login page instead after     *)
(* following a link.                                                       *)
THEOREM PatienceGetsThere == Spec => []GetsThere
<1>1. Init => WayInv
  <2> SUFFICES ASSUME Init PROVE WayInv
    OBVIOUS
  <2>1. address.path = "/login" /\ page = PageAt("/login") /\ wanted = "/login"
    BY DEF Init, SessionInit, Request, PageAt
  <2> QED
    BY <2>1 DEF Init, SessionInit, WayInv, LoadingIsIdle, OneThingAtATime, OnTheWay, StrangersSignIn
<1>2. WayInv => GetsThere
  BY DEF WayInv, OnTheWay, StrangersSignIn, GetsThere, Quiet, Settled
<1> QED
  BY <1>1, <1>2, WayNext, SiteTypes, PTL DEF Spec
=============================================================================
