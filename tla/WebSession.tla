----------------------------- MODULE WebSession -----------------------------
(***************************************************************************)
(* One tab of a browser on the web site: which page it shows, and how the  *)
(* server's check of the token in the address, the navigation bar and the  *)
(* sign-in lead from page to page.                                         *)
(*                                                                         *)
(* The user stays signed in in the browser, but a page learns of that only *)
(* some time after it was loaded, and the server only from the token.  A   *)
(* page fetches a fresh token and then goes where it was asked to; what    *)
(* was asked for meanwhile is forgotten.  A token is good for an hour.     *)
(*                                                                         *)
(* The server mounts the directory with the pages' scripts when the first  *)
(* of these pages is asked for.  "/" never gets to the check: a file       *)
(* index.html, the welcome page of an empty site, is found first.          *)
(***************************************************************************)
EXTENDS Naturals, FiniteSets

CONSTANTS
    None,           \* no request under way
    MaxAsking,      \* bound: tokens being fetched at a time
    MaxTroubles     \* bound: tokens that cannot be fetched, sign-ins and
                    \* sign-outs in another tab, and restarts of the server

Gated == {"/account", "/gameselect", "/fbshot"}

Paths == Gated \cup {"/", "/login", "/singleshot"}

(* The file a path is for. *)
PageAt(path) ==
    CASE path = "/"           -> "welcome"
      [] path = "/login"      -> "login"
      [] path = "/singleshot" -> "singleshot"
      [] path = "/account"    -> "accountsettings"
      [] path = "/gameselect" -> "shottracker"
      [] path = "/fbshot"     -> "fbshottracker"

Pages == {PageAt(path) : path \in Paths}

(* Their scripts are in the directory mounted late. *)
Views == {PageAt(path) : path \in Gated}

Tokens == {"none", "fresh", "expired"}

(* by: a link, a button or the page, an address typed in, or a reload. *)
Requests == [path : Paths, token : Tokens, by : {"link", "address", "reload"}]

ASSUME WebSessionAssumption ==
    /\ None \notin Requests
    /\ MaxAsking \in Nat /\ MaxTroubles \in Nat

VARIABLES
    patient,        \* the user waits for what was asked for
    signedIn,       \* a user is signed in in this browser
    failures, changes, restarts,
    viewsMounted,   \* the server serves the views' scripts
    page,           \* the page shown
    address,        \* the request it answered
    scripts,        \* the page's own scripts: "loading", "loaded" or "missing"
    known,          \* what the page knows: "unknown", "user" or "nobody"
    request,        \* the request under way
    asking,         \* where to go when a token is here
    loggingOut,     \* the Log Out button: "no", "pending" or "done"
    wanted          \* the path a patient user wants to be at

world == <<patient, signedIn, failures, changes, restarts, viewsMounted>>
tab == <<page, address, scripts, known>>
going == <<request, asking, loggingOut, wanted>>
sessionVars == <<world, tab, going>>

----------------------------------------------------------------------------
Request(path, token, by) == [path |-> path, token |-> token, by |-> by]

(* orElse: if there is no token, go without one. *)
Ask(path, orElse) == [path |-> path, orElse |-> orElse]

User(u) == IF u THEN "user" ELSE "nobody"

Troubles == failures + changes + restarts

SessionTypeOK ==
    /\ patient \in BOOLEAN /\ signedIn \in BOOLEAN /\ viewsMounted \in BOOLEAN
    /\ failures \in Nat /\ changes \in Nat /\ restarts \in Nat
    /\ Troubles <= MaxTroubles
    /\ page \in Pages
    /\ address \in Requests
    /\ page # PageAt(address.path) => page = "login" /\ address.path \in Gated
    /\ scripts \in {"loading", "loaded", "missing"}
    /\ known \in {"unknown", "user", "nobody"}
    /\ known # "unknown" => known = User(signedIn)
    /\ request \in Requests \cup {None}
    /\ asking \subseteq [path : Paths, orElse : BOOLEAN]
    /\ loggingOut \in {"no", "pending", "done"}
    /\ wanted \in Paths

SessionInit ==
    /\ patient \in BOOLEAN
    /\ signedIn \in BOOLEAN
    /\ failures = 0
    /\ changes = 0
    /\ restarts = 0
    /\ viewsMounted = FALSE
    /\ page = "login"
    /\ address = Request("/login", "none", "address")
    /\ scripts = "loaded"
    /\ known = "unknown"
    /\ request = None
    /\ asking = {}
    /\ loggingOut = "no"
    /\ wanted = "/login"

----------------------------------------------------------------------------
(* A request replaces the one under way. *)
Go(path, token, by) == request' = Request(path, token, by)

(* A token is fetched first. *)
Fetch(path, orElse) ==
    /\ Cardinality(asking) < MaxAsking
    /\ asking' = asking \cup {Ask(path, orElse)}

(* The page has done all it was asked for. *)
Settled ==
    asking = {} /\ known # "unknown" /\ scripts # "loading" /\ loggingOut # "pending"

Quiet == Settled /\ request = None

(* The server refuses an expired token and does not answer. *)
Stuck == request # None /\ request.path \in Gated /\ request.token = "expired"

(* The user does something, and wants to be at path. *)
Act(path) ==
    /\ patient => Settled /\ (request = None \/ Stuck)
    /\ wanted' = IF patient THEN path ELSE wanted

Links == {"/", "/singleshot", "/gameselect"}
            \cup (IF page \in Views THEN {"/account"} ELSE {"/login"})

(* An open page is reached without a token. *)
OpenLink(path) ==
    /\ page # "welcome"
    /\ path \in Links \cap {"/singleshot", "/login"}
    /\ Act(path)
    /\ Go(path, "none", "link")
    /\ UNCHANGED <<world, tab, asking, loggingOut>>

(* Any other with one, if the page knows a user. *)
GatedLink(path) ==
    /\ page # "welcome"
    /\ path \in Links \ {"/singleshot", "/login"}
    /\ Act(path)
    /\ \/ known = "user" /\ Fetch(path, path # "/") /\ UNCHANGED request
       \/ known # "user" /\ Go(path, "none", "link") /\ UNCHANGED asking
    /\ UNCHANGED <<world, tab, loggingOut>>

(* An address is typed in, without a token. *)
Visit(path) ==
    /\ Act(path)
    /\ Go(path, "none", "address")
    /\ UNCHANGED <<world, tab, asking, loggingOut>>

Reload ==
    /\ Act(address.path)
    /\ Go(address.path, address.token, "reload")
    /\ UNCHANGED <<world, tab, asking, loggingOut>>

(* Mutant of AfterLogin: the path the login page stands in for is lost. *)
HomeAfterLogin(path) == "/"

AfterLogin(path) == IF path = "/login" THEN "/" ELSE path

(* login, signup, googleOAuth; then sendTokenToServer. *)
SignIn ==
    /\ page = "login"
    /\ Act(IF address.path = "/login" THEN "/" ELSE address.path)
    /\ signedIn' = TRUE
    /\ known' = "user"
    /\ Fetch(AfterLogin(address.path), FALSE)
    /\ UNCHANGED <<patient, failures, changes, restarts, viewsMounted, page, address,
                   scripts, request, loggingOut>>

(* selectAGame on the selector page; its write is GameSelector's. *)
SelectGame ==
    /\ page = "shottracker"
    /\ scripts = "loaded"
    /\ known = "user"
    /\ Act("/fbshot")
    /\ Fetch("/fbshot", FALSE)
    /\ UNCHANGED <<world, tab, request, loggingOut>>

LogOut ==
    /\ page = "accountsettings"
    /\ scripts = "loaded"
    /\ loggingOut = "no"
    /\ Act("/")
    /\ loggingOut' = "pending"
    /\ UNCHANGED <<world, tab, request, asking>>

----------------------------------------------------------------------------
(* What the browser and the server do. *)

(* The page hears of the user, or of none: the selector sends a stranger   *)
(* to the login page, and an account page that logs out sends one home.    *)
Told(u) ==
    IF u = "nobody" /\ page = "shottracker" /\ scripts' = "loaded"
    THEN Go("/login", "none", "link") /\ wanted' = IF patient THEN "/login" ELSE wanted
    ELSE IF u = "nobody" /\ page = "accountsettings" /\ loggingOut # "no"
    THEN Go("/", "none", "link") /\ wanted' = IF patient THEN "/" ELSE wanted
    ELSE UNCHANGED <<request, wanted>>

AuthKnown ==
    /\ known = "unknown"
    /\ known' = User(signedIn)
    /\ scripts' = scripts
    /\ Told(known')
    /\ UNCHANGED <<world, page, address, asking, loggingOut>>

(* The page's own scripts, which hear of a user already known at once. *)
ScriptsArrive ==
    /\ scripts = "loading"
    /\ scripts' = IF viewsMounted THEN "loaded" ELSE "missing"
    /\ Told(known)
    /\ UNCHANGED <<world, page, address, known, asking, loggingOut>>

(* signOut ends. *)
SignOutDone ==
    /\ loggingOut = "pending"
    /\ loggingOut' = "done"
    /\ signedIn' = FALSE
    /\ known' = "nobody"
    /\ scripts' = scripts
    /\ Told("nobody")
    /\ UNCHANGED <<patient, failures, changes, restarts, viewsMounted, page, address, asking>>

(* The user signs in or out in another tab. *)
ChangeElsewhere ==
    /\ Troubles < MaxTroubles
    /\ changes' = changes + 1
    /\ signedIn' = ~signedIn
    /\ known' = IF known = "unknown" THEN known ELSE User(signedIn')
    /\ scripts' = scripts
    /\ Told(known')
    /\ UNCHANGED <<patient, failures, restarts, viewsMounted, page, address, asking,
                   loggingOut>>

(* Mutant of TokenArrives: the token is the one in the address, if any. *)
TokenArrivesCached(a) ==
    /\ a \in asking
    /\ asking' = asking \ {a}
    /\ Go(a.path, IF address.token = "none" THEN "fresh" ELSE address.token, "link")
    /\ UNCHANGED <<world, tab, loggingOut, wanted>>

(* getIdToken(true) is done, whatever was clicked meanwhile. *)
TokenArrives(a) ==
    /\ a \in asking
    /\ asking' = asking \ {a}
    /\ Go(a.path, "fresh", "link")
    /\ UNCHANGED <<world, tab, loggingOut, wanted>>

TokenFails(a) ==
    /\ Troubles < MaxTroubles
    /\ failures' = failures + 1
    /\ a \in asking
    /\ asking' = asking \ {a}
    /\ \/ a.orElse /\ Go(a.path, "none", "link")
       \/ ~a.orElse /\ UNCHANGED request
    /\ UNCHANGED <<patient, signedIn, changes, restarts, viewsMounted, tab, loggingOut,
                   wanted>>

(* loginCheck, without a token *)
Served == IF request.path \in Gated /\ request.token = "none" THEN "login"
          ELSE PageAt(request.path)

(* Mutant of Mounts: no handler mounts the views. *)
MountsNothing(file) == FALSE

(* The handlers of the gated pages mount the views. *)
Mounts(file) == file \in Views

(* The server answers, and the browser shows the page. *)
Serve ==
    /\ request # None
    /\ ~Stuck
    /\ page' = Served
    /\ viewsMounted' = (viewsMounted \/ Mounts(Served))
    /\ address' = request
    /\ scripts' = IF Served \in Views THEN "loading" ELSE "loaded"
    /\ known' = "unknown"
    /\ request' = None
    /\ asking' = {}
    /\ loggingOut' = "no"
    /\ UNCHANGED <<patient, signedIn, failures, changes, restarts, wanted>>

ServerRestarts ==
    /\ Troubles < MaxTroubles
    /\ restarts' = restarts + 1
    /\ viewsMounted' = FALSE
    /\ UNCHANGED <<patient, signedIn, failures, changes, tab, going>>

(* An hour passes. *)
Expire ==
    /\ address.token = "fresh"
    /\ address' = [address EXCEPT !.token = "expired"]
    /\ UNCHANGED <<world, page, scripts, known, going>>

----------------------------------------------------------------------------
UserGoes ==
    \/ \E path \in Paths : OpenLink(path) \/ GatedLink(path) \/ Visit(path)
    \/ Reload
    \/ SignIn
    \/ SelectGame
    \/ LogOut

TokenStep == \E a \in asking : TokenArrives(a) \/ TokenFails(a)

Waiting == AuthKnown \/ ScriptsArrive \/ SignOutDone \/ TokenStep

(* Everything but the arrival of a page. *)
StayStep == UserGoes \/ Waiting \/ ChangeElsewhere \/ ServerRestarts \/ Expire

----------------------------------------------------------------------------
(* Properties. *)

(* A page that was sent finds its scripts, although their directory is     *)
(* mounted by whatever request happens to come first, unless the server    *)
(* was restarted.                                                          *)
PagesGetTheirScripts == scripts = "missing" => restarts > 0

(* Through tokens fetched late, redirects and the login page that stands   *)
(* in for others, a user who waits ends where they wanted, or at the login *)
(* page in its place if they typed the address, or were not signed in when *)
(* they followed the link.                                                 *)
GetsThere ==
    patient /\ failures = 0 /\ changes = 0 /\ Quiet =>
        /\ address.path = wanted
        /\ page # PageAt(wanted) /\ address.by = "link" => ~signedIn

(* ... and gets there time and again: no request but a reload is left      *)
(* without an answer.                                                      *)
WantedIsReached ==
    []<>(\/ ~patient \/ failures > 0 \/ changes > 0
         \/ address.path = wanted
         \/ request # None /\ request.by = "reload")
=============================================================================
