-------------------------- MODULE SessionRegistry --------------------------
(***************************************************************************)
(* The Session listeners of a node as its REST API manages them            *)
(* (rest-api/src/session.rs): POST binds a listening socket and registers  *)
(* it in the shared map open_listeners, DELETE matches entries of the map, *)
(* removes them one by one, closes their client sessions and aborts their  *)
(* listener.  The handlers run in parallel and hold no lock between two    *)
(* operations on the map.                                                  *)
(*                                                                         *)
(* Binding, registering and serving a listener belong to the library       *)
(* hopr_utils_session, which is not part of the repository: those actions  *)
(* are modelled from how the handlers use it and are marked external.      *)
(***************************************************************************)
EXTENDS Naturals, FiniteSets

CONSTANTS
    Hosts,          \* pairs of IP protocol and listening IP
    Ports,          \* ports that may be listened on
    Posts, Deletes, \* the requests made, one handler each, numbered as they arrive
    Clients,        \* the client sessions that may be opened
    MaxListeners    \* bound: listeners ever created

ASSUME RegistryConstants ==
    /\ Hosts # {}
    /\ Ports \subseteq Nat \ {0}
    /\ Posts \union Deletes \subseteq Nat
    /\ Posts \intersect Deletes = {}
    /\ MaxListeners \in Nat

Reqs     == Posts \union Deletes
Key      == Hosts \X Ports
Listener == 1 .. MaxListeners
None     == 0
AnyPort  == 0

VARIABLES
    listed,     \* open_listeners: the listener registered under a key, or None
    socket,     \* external: the listener whose socket is bound to a key, or None
    serving,    \* external: listeners whose accept loop runs
    aborted,    \* listeners whose abort handle was used
    made,       \* listeners created so far
    session,    \* the listener a client session came through, or None
    open,       \* client sessions the SessionManager holds
    pc,         \* where the handler of a request is
    want,       \* POST: the host and port it was asked for
    hand,       \* the listener it has bound, or removed and not yet aborted
    unseen,     \* DELETE: keys its iteration has yet to reach
    found,      \* DELETE: to_remove
    reply,      \* HTTP status, or None while it runs
    matched,    \* history: listeners the iteration matched
    early       \* history: their client sessions at that moment

vars == <<listed, socket, serving, aborted, made, session, open, pc, want, hand, unseen,
          found, reply, matched, early>>

listeners == <<listed, socket, serving, aborted, made>>
sessions  == <<session, open>>
history   == <<matched, early>>

\* entry.get_clients(): the live sessions of a listener.
ClientsOf(l) == {c \in open : session[c] = l}

Init ==
    /\ listed = [k \in Key |-> None]
    /\ socket = [k \in Key |-> None]
    /\ serving = {}
    /\ aborted = {}
    /\ made = 0
    /\ session = [c \in Clients |-> None]
    /\ open = {}
    /\ pc = [r \in Reqs |-> "idle"]
    /\ want = [r \in Reqs |-> CHOOSE k \in Hosts \X {AnyPort} : TRUE]
    /\ hand = [r \in Reqs |-> None]
    /\ unseen = [r \in Reqs |-> {}]
    /\ found = [r \in Reqs |-> {}]
    /\ reply = [r \in Reqs |-> None]
    /\ matched = [r \in Reqs |-> {}]
    /\ early = [r \in Reqs |-> {}]

Goto(r, l) == pc' = [pc EXCEPT ![r] = l]

\* The handler returns.
Answer(r, status) ==
    /\ Goto(r, "done")
    /\ reply' = [reply EXCEPT ![r] = status]

\* The next request of its kind.  Only their numbers tell those not yet made apart.
Arrives(r, kind) ==
    /\ pc[r] = "idle"
    /\ \A q \in kind : q < r => pc[q] # "idle"

-----------------------------------------------------------------------------
(* POST: create_client and create_client_explicit_path.                    *)

\* bind_host.port() > 0 && open_listeners.contains_key(..)
Taken(host, port) == \E k \in Key : k = <<host, port>> /\ listed[k] # None

\* A fixed port that is already registered is refused with 409.  So is, with 422,
\* a request whose session configuration cannot be built.
Create(r, host, port) ==
    /\ Arrives(r, Posts)
    /\ want' = [want EXCEPT ![r] = <<host, port>>]
    /\ IF Taken(host, port)
       THEN Answer(r, 409)
       ELSE \/ Answer(r, 422)
            \/ Goto(r, "bind") /\ UNCHANGED reply
    /\ UNCHANGED <<listeners, sessions, hand, unseen, found, history>>

\* External: the library binds the wanted port, or any free one.
Bind(r, k) ==
    /\ pc[r] = "bind"
    /\ made < MaxListeners
    /\ k[1] = want[r][1] /\ want[r][2] \in {AnyPort, k[2]}
    /\ socket[k] = None
    /\ made' = made + 1
    /\ socket' = [socket EXCEPT ![k] = made']
    /\ hand' = [hand EXCEPT ![r] = made']
    /\ Goto(r, "register")
    /\ UNCHANGED <<listed, serving, aborted, sessions, want, unseen, found, reply, history>>

\* External: the port is in use - here or in another process - or the socket
\* cannot be had for another reason.
BindFails(r) ==
    /\ pc[r] = "bind"
    /\ \E status \in {409, 422} : Answer(r, status)
    /\ UNCHANGED <<listeners, sessions, want, hand, unseen, found, history>>

\* External: the entry goes into open_listeners and the accept loop starts.
Register(r) ==
    /\ pc[r] = "register"
    /\ \E k \in Key :
        /\ socket[k] = hand[r]
        /\ listed' = [listed EXCEPT ![k] = hand[r]]
    /\ serving' = serving \union {hand[r]}
    /\ hand' = [hand EXCEPT ![r] = None]
    /\ Answer(r, 200)
    /\ UNCHANGED <<socket, aborted, made, sessions, want, unseen, found, history>>

\* External: the session cannot be set up, or the client hung up and the
\* handler is dropped: so is the bound socket.
Abandon(r) ==
    /\ pc[r] = "register"
    /\ socket' = [k \in Key |-> IF socket[k] = hand[r] THEN None ELSE socket[k]]
    /\ hand' = [hand EXCEPT ![r] = None]
    /\ Answer(r, 422)
    /\ UNCHANGED <<listed, serving, aborted, made, sessions, want, unseen, found, history>>

-----------------------------------------------------------------------------
(* DELETE: close_client.                                                   *)

\* The iteration starts: it will reach the keys of the host and, unless it is
\* 0, of the port.
Close(r, host, port) ==
    /\ Arrives(r, Deletes)
    /\ unseen' = [unseen EXCEPT ![r] = IF port = AnyPort THEN {host} \X Ports ELSE {<<host, port>>}]
    /\ Goto(r, "match")
    /\ UNCHANGED <<listeners, sessions, want, hand, found, reply, history>>

\* The iteration reaches a key: it sees whether something is registered there
\* now.  It visits the map shard by shard, so the map may change in between.
Match(r, k) ==
    /\ pc[r] = "match"
    /\ k \in unseen[r]
    /\ unseen' = [unseen EXCEPT ![r] = @ \ {k}]
    /\ IF listed[k] = None
       THEN UNCHANGED <<found, history>>
       ELSE /\ found' = [found EXCEPT ![r] = @ \union {k}]
            /\ matched' = [matched EXCEPT ![r] = @ \union {listed[k]}]
            /\ early' = [early EXCEPT ![r] = @ \union ClientsOf(listed[k])]
    /\ UNCHANGED <<listeners, sessions, pc, want, hand, reply>>

\* Nothing matched: 404.  Otherwise the entries are closed one by one.
Matched(r) ==
    /\ pc[r] = "match"
    /\ unseen[r] = {}
    /\ IF found[r] = {}
       THEN Answer(r, 404)
       ELSE Goto(r, "remove") /\ UNCHANGED reply
    /\ UNCHANGED <<listeners, sessions, want, hand, unseen, found, history>>

LookUp(r, k) ==
    /\ pc[r] = "remove"
    /\ k \in found[r]
    /\ found' = [found EXCEPT ![r] = @ \ {k}]
    /\ IF listed[k] = None
       THEN Answer(r, 404) /\ UNCHANGED hand
       ELSE /\ hand' = [hand EXCEPT ![r] = listed[k]]
            /\ Goto(r, "sessions")
            /\ UNCHANGED reply
    /\ UNCHANGED <<listed, socket, serving, aborted, made, sessions, want, unseen, history>>

\* open_listeners.remove: when the entry has gone since it was matched, the
\* handler returns 404 there and then, the rest of to_remove untouched.
Remove(r, k) ==
    /\ pc[r] = "remove"
    /\ k \in found[r]
    /\ found' = [found EXCEPT ![r] = @ \ {k}]
    /\ IF listed[k] = None
       THEN Answer(r, 404) /\ UNCHANGED <<listed, hand>>
       ELSE /\ hand' = [hand EXCEPT ![r] = listed[k]]
            /\ listed' = [listed EXCEPT ![k] = None]
            /\ Goto(r, "sessions")
            /\ UNCHANGED reply
    /\ UNCHANGED <<socket, serving, aborted, made, sessions, want, unseen, history>>

\* The configurators of the clients attached now are collected and closed.
CloseSessions(r) ==
    /\ pc[r] = "sessions"
    /\ open' = open \ ClientsOf(hand[r])
    /\ Goto(r, "abort")
    /\ UNCHANGED <<listeners, session, want, hand, unseen, found, reply, history>>

AbortFirstOnly(r) ==
    /\ pc[r] = "abort"
    /\ aborted' = aborted \union {hand[r]}
    /\ hand' = [hand EXCEPT ![r] = None]
    /\ Answer(r, 204)
    /\ UNCHANGED <<listed, socket, serving, made, sessions, want, unseen, found, history>>

AbortForgotten(r) ==
    /\ pc[r] = "abort"
    /\ hand' = [hand EXCEPT ![r] = None]
    /\ IF found[r] = {} THEN Answer(r, 204) ELSE Goto(r, "remove") /\ UNCHANGED reply
    /\ UNCHANGED <<listeners, sessions, want, unseen, found, history>>

\* entry.abort_handle.abort(), and on to the next entry.
Abort(r) ==
    /\ pc[r] = "abort"
    /\ aborted' = aborted \union {hand[r]}
    /\ hand' = [hand EXCEPT ![r] = None]
    /\ IF found[r] = {} THEN Answer(r, 204) ELSE Goto(r, "remove") /\ UNCHANGED reply
    /\ UNCHANGED <<listed, socket, serving, made, sessions, want, unseen, found, history>>

-----------------------------------------------------------------------------
(* The listener tasks and the clients that connect to them, all external.  *)

\* An aborted accept loop ends at its next await point, and its socket with it.
Ends(l) ==
    /\ l \in serving \intersect aborted
    /\ serving' = serving \ {l}
    /\ socket' = [k \in Key |-> IF socket[k] = l THEN None ELSE socket[k]]
    /\ UNCHANGED <<listed, aborted, made, sessions, pc, want, hand, unseen, found, reply, history>>

\* A client connects and gets a session of its own.
Connect(l, c) ==
    /\ l \in serving
    /\ session[c] = None
    /\ session' = [session EXCEPT ![c] = l]
    /\ open' = open \union {c}
    /\ UNCHANGED <<listeners, pc, want, hand, unseen, found, reply, history>>

\* The client is done, or the session idles out.
Disconnect(c) ==
    /\ c \in open
    /\ open' = open \ {c}
    /\ UNCHANGED <<listeners, session, pc, want, hand, unseen, found, reply, history>>

-----------------------------------------------------------------------------
Handler(r) ==
    \/ BindFails(r) \/ Register(r) \/ Abandon(r)
    \/ Matched(r) \/ CloseSessions(r) \/ Abort(r)
    \/ \E k \in Key : Bind(r, k) \/ Match(r, k) \/ Remove(r, k)

Next ==
    \/ \E host \in Hosts, port \in Ports \union {AnyPort} :
        \/ \E r \in Posts : Create(r, host, port)
        \/ \E r \in Deletes : Close(r, host, port)
    \/ \E r \in Reqs : Handler(r)
    \/ \E l \in Listener : Ends(l) \/ \E c \in Clients : Connect(l, c)
    \/ \E c \in Clients : Disconnect(c)

Spec == Init /\ [][Next]_vars

\* A handler that was polled runs on, and an aborted task is cancelled.  Nobody
\* owes the node a request or a connection.
Fairness ==
    /\ \A r \in Reqs : WF_vars(Handler(r))
    /\ \A l \in Listener : WF_vars(Ends(l))

FairSpec == Spec /\ Fairness

-----------------------------------------------------------------------------
Labels == {"idle", "bind", "register", "match", "remove", "sessions", "abort", "done"}

\* The values the variables take: what is listed, bound, served or aborted was
\* created, and a handler has its reply exactly when it is done.
TypeOK ==
    /\ made \in 0 .. MaxListeners
    /\ listed \in [Key -> 0 .. made]
    /\ socket \in [Key -> 0 .. made]
    /\ serving \subseteq 1 .. made
    /\ aborted \subseteq 1 .. made
    /\ session \in [Clients -> 0 .. made]
    /\ open \subseteq {c \in Clients : session[c] # None}
    /\ pc \in [Reqs -> Labels]
    /\ want \in [Reqs -> Hosts \X (Ports \union {AnyPort})]
    /\ hand \in [Reqs -> 0 .. made]
    /\ unseen \in [Reqs -> SUBSET Key]
    /\ found \in [Reqs -> SUBSET Key]
    /\ reply \in [Reqs -> {None, 200, 204, 404, 409, 422}]
    /\ \A r \in Reqs : (reply[r] # None) <=> (pc[r] = "done")
    /\ matched \in [Reqs -> SUBSET (1 .. made)]
    /\ early \in [Reqs -> SUBSET Clients]

\* What GET lists is really there: a registered listener holds the socket of its
\* key, serves, and was not aborted - though handlers check, remove and abort
\* without a lock, and the key may have been taken over since.
ListedIsLive ==
    /\ TypeOK
    /\ \A k \in Key : listed[k] # None =>
         /\ socket[k] = listed[k]
         /\ listed[k] \in serving
         /\ listed[k] \notin aborted

\* "204 Listener closed successfully": every listener the request matched was
\* aborted - by it, or by the request that took the entry away from it - and no
\* client session those listeners had then is left in the SessionManager.
OkMeansClosed ==
    \A r \in Reqs : reply[r] = 204 =>
        /\ matched[r] \subseteq aborted
        /\ early[r] \intersect open = {}

\* No socket stays bound without an entry through which it can be closed: a bind
\* in progress is registered or given up, a removed listener lets go of its port.
NoOrphanSocket ==
    \A k \in Key :
        (socket[k] # None /\ listed[k] = None) ~> (socket[k] = None \/ listed[k] # None)

\* "If the passed port number is 0, listeners on all ports of the given listening
\* IP and protocol will be closed": once such a request is over, nothing it
\* matched is still registered.
PortZeroClosesAll ==
    \A r \in Reqs : pc[r] = "done" =>
        \A k \in Key : listed[k] \notin matched[r]
=============================================================================
