------------------------------- MODULE Proxy --------------------------------
(***************************************************************************)
(* Container applications behind WebDesk's own door: src/proxy.rs, with    *)
(* the listeners of src/origin.rs that serve one at the root of a port.    *)
(*                                                                         *)
(* One browser, which is on the desktop or in the frame of an application. *)
(* A visit is a request to a door; the proxy asks for a session, looks the *)
(* application up, and answers itself or relays.  What applications answer *)
(* is anything they may: cookies for any path, redirects to anywhere.  The *)
(* browser keeps one jar for all of WebDesk's ports.                       *)
(*                                                                         *)
(* A path is the prefix of an application or the root, and nothing deeper. *)
(* Left out are bodies, the headers that tell an application where it is,  *)
(* the tunnel after a change of protocol, and a port that changes hands    *)
(* between the book and the connection.                                    *)
(***************************************************************************)
EXTENDS Naturals

CONSTANTS
    App,
    OwnOrigin,    \* the applications that are served at a port of their own
    Name,         \* names of cookies
    WebDesk       \* the setter of the session's cookie, and its name

\* Where a cookie may be for: the root, or under the prefix of an application.
Root == "root"
Path == App \cup {Root}

ASSUME ProxyAssumption ==
    OwnOrigin \subseteq App /\ WebDesk \notin App \cup Name /\ Root \notin App

VARIABLES
    session,      \* the daemon knows the session
    book,         \* applications that are installed
    up,           \* applications that listen
    jar,          \* the browser's cookies
    framed,       \* the door the frame shows, and whether it is at its slash
    visit,        \* how far the request is, and what it carries
    received      \* each application: the setters of the cookies it was sent

proxyVars == <<session, book, up, jar, framed, visit, received>>

Cookie == [name : Name \cup {WebDesk}, path : Path, by : App \cup {WebDesk}]
SessionCookie == [name |-> WebDesk, path |-> Root, by |-> WebDesk]

\* A browser replaces a cookie of the same name and path.
Store(C) ==
    jar' = {d \in jar : \A c \in C : d.name # c.name \/ d.path # c.path} \cup C

\* The two doors of an application, its prefix without the slash, and elsewhere.
Door == {"prefix", "bare", "origin"}
Elsewhere == [app |-> WebDesk, door |-> "elsewhere"]
At(a, d) == [app |-> a, door |-> d]

\* What the browser sends with a request: at the prefix the cookies of that
\* application and of the root; at a port of its own, and at the prefix
\* without its slash, those of the root.
CookiesFor(f) ==
    {c \in jar : c.path = Root \/ (f.door = "prefix" /\ c.path = f.app)}

NoVisit == [pc |-> "none", cookies |-> {}, redirected |-> FALSE]

ProxyInit ==
    /\ session = FALSE
    /\ book = {} /\ up = {}
    /\ jar = {}
    /\ framed = Elsewhere
    /\ visit = NoVisit
    /\ received = [a \in App |-> {}]

\* The browser asks for this address, because its application said so or not.
GoTo(f, redirected) ==
    /\ framed' = f
    /\ visit' = IF f = Elsewhere THEN NoVisit
                ELSE [pc |-> "asked", cookies |-> {}, redirected |-> redirected]

-----------------------------------------------------------------------------
SignIn ==
    /\ ~session /\ visit.pc = "none"
    /\ session' = TRUE
    /\ Store({SessionCookie})
    /\ UNCHANGED <<book, up, framed, visit, received>>

\* The session ends, while a request is on its way or not.
SignOut ==
    /\ session
    /\ session' = FALSE
    /\ UNCHANGED <<book, up, jar, framed, visit, received>>

\* Applications are installed, removed, started and stopped at any time.
Manage ==
    /\ \E a \in App :
          \/ book' = book \cup {a} /\ up' = up \cup {a}
          \/ book' = book \ {a} /\ up' = up \ {a}
          \/ a \in up /\ book' = book /\ up' = up \ {a}
    /\ UNCHANGED <<session, jar, framed, visit, received>>

\* A window is opened, a bookmark followed, a link clicked.
Visit ==
    /\ visit.pc = "none"
    /\ \E a \in App, d \in Door :
          /\ d = "origin" => a \in OwnOrigin
          /\ GoTo(At(a, d), FALSE)
    /\ UNCHANGED <<session, book, up, jar, received>>

-----------------------------------------------------------------------------
\* session_of: the request carries the cookie of a session that is known.
SignedIn == session /\ SessionCookie \in CookiesFor(framed)

Answered == visit' = [visit EXCEPT !.pc = "answered"]

\* Mutant: the address of its own is where an application is sent from anywhere.
ToOrigin(f) == f.app \in OwnOrigin

\* What an application with an origin of its own is asked for at its prefix is
\* at the origin.
SentToOrigin(f) == f.door = "prefix" /\ f.app \in OwnOrigin

\* Mutant: the application is sent the whole of the browser's header.
ForwardAll(cookies) == cookies

\* strip_session_cookie, by name
ForwardedCookies(cookies) == {c \in cookies : c.name # WebDesk}

\* handle_root, handle_index, handle, and serve behind a port of its own.
Handle ==
    /\ visit.pc = "asked"
    /\ CASE ~SignedIn \/ framed.app \notin book -> Answered /\ UNCHANGED framed
         [] framed.door = "bare" -> GoTo(At(framed.app, "prefix"), visit.redirected)
         [] SentToOrigin(framed) -> GoTo(At(framed.app, "origin"), visit.redirected)
         [] OTHER -> /\ visit' = [visit EXCEPT !.pc = "forward",
                                               !.cookies = ForwardedCookies(CookiesFor(framed))]
                     /\ UNCHANGED framed
    /\ UNCHANGED <<session, book, up, jar, received>>

\* dial: an application that does not answer is a page that says so.
Forward ==
    /\ visit.pc = "forward"
    /\ IF framed.app \in up
       THEN /\ visit' = [visit EXCEPT !.pc = "relayed"]
            /\ received' = [received EXCEPT ![framed.app] =
                              @ \cup {c.by : c \in visit.cookies}]
       ELSE Answered /\ UNCHANGED received
    /\ UNCHANGED <<session, book, up, jar, framed>>

-----------------------------------------------------------------------------
(* The answer of an application. *)

\* The prefix forward is given, as a path.
Prefix(f) == IF f.door = "origin" THEN Root ELSE f.app

\* rewrite_cookie: whatever path it asks for, and none for the session's name.
RewrittenCookie(c) ==
    IF c.name = WebDesk THEN {} ELSE {[c EXCEPT !.path = Prefix(framed)]}

\* Mutant: the whole address is the path under the prefix.
MovedTwice(l) == IF l = "other host" THEN Elsewhere ELSE At(framed.app, l)

\* rewrite_location: a path, and the application's own address, are moved under
\* its prefix; another host is left.
RewrittenLocation(l) == IF l = "other host" THEN Elsewhere ELSE framed

\* forward, from the answer on: a page or a redirect, with a cookie or without.
\* An application redirects a request once.
Relay ==
    /\ visit.pc = "relayed"
    /\ \/ UNCHANGED jar
       \/ \E c \in Cookie : c.by = framed.app /\ Store(RewrittenCookie(c))
    /\ \/ Answered /\ UNCHANGED framed
       \/ /\ visit.redirected = FALSE
          /\ \E l \in {"path", "own address", "other host"} :
                GoTo(RewrittenLocation(l), TRUE)
    /\ UNCHANGED <<session, book, up, received>>

\* The page is shown.
Show ==
    /\ visit.pc = "answered"
    /\ visit' = NoVisit
    /\ UNCHANGED <<session, book, up, jar, framed, received>>

-----------------------------------------------------------------------------
Serve == Handle \/ Forward \/ Relay \/ Show

ProxyNext == SignIn \/ SignOut \/ Manage \/ Visit \/ Serve

\* The proxy is run, applications that listen answer, browsers show answers.
ProxyFairness == WF_proxyVars(Serve)

ProxySpec == ProxyInit /\ [][ProxyNext]_proxyVars /\ ProxyFairness

-----------------------------------------------------------------------------
ProxyTypeOK ==
    /\ session \in BOOLEAN
    /\ book \subseteq App /\ up \subseteq book
    /\ jar \subseteq Cookie
    /\ framed \in [app : App, door : Door] \cup {Elsewhere}
    /\ visit \in [pc : {"none", "asked", "forward", "relayed", "answered"},
                  cookies : SUBSET Cookie, redirected : BOOLEAN]
    /\ received \in [App -> SUBSET (App \cup {WebDesk})]

\* An application is sent the cookies it set, those an application at the root
\* of a port set, which the browser sends everywhere (origin.rs:26-34), and
\* never the session's: two applications with the same cookie name do not log
\* each other out.
OwnCookies == \A a \in App : received[a] \subseteq {a} \cup OwnOrigin

\* Nothing an application answers takes the session out of the browser: who is
\* signed in stays so.
SessionKept == session => SessionCookie \in jar

\* A browser that asks for an application that is there, signed in and for as
\* long as that is so, arrives at it, by whichever door it came: the redirects
\* to the slash and to the port of its own end.
Arrives ==
    [](visit.pc = "asked" /\ [](session /\ framed.app \in up)
          => <>(visit.pc = "relayed"))
=============================================================================
