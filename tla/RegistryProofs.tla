--------------------------- MODULE RegistryProofs ---------------------------
(***************************************************************************)
(* What the handlers of the Session listeners guarantee without any lock,  *)
(* for any number of requests, hosts, ports, clients and listeners: a      *)
(* listener that is listed is live, and 204 means closed.                  *)
(*                                                                         *)
(* The argument is about who has a listener.  Before it is registered that *)
(* is the handler that bound it, alone; while it is registered, the map,   *)
(* and it has its socket; from its removal on, handlers that are about to  *)
(* abort it.  Its socket is let go only after that.  So a handler that has *)
(* matched a listener finds it again under its key, has it in hand, or     *)
(* somebody has aborted it.                                                *)
(***************************************************************************)
EXTENDS SessionRegistry, TLAPS

\* A DELETE that has removed an entry and not yet aborted its listener.
Closing == {"sessions", "abort"}

Statuses == {None, 200, 204, 404, 409, 422}

\* The listeners there are, and the sessions through them.
TypeListeners ==
    /\ made \in 0 .. MaxListeners
    /\ listed \in [Key -> 0 .. made]
    /\ socket \in [Key -> 0 .. made]
    /\ serving \subseteq 1 .. made
    /\ aborted \subseteq 1 .. made
    /\ session \in [Clients -> 0 .. made]
    /\ open \subseteq {c \in Clients : session[c] # None}

\* The handlers.
TypeHandlers ==
    /\ pc \in [Reqs -> Labels]
    /\ reply \in [Reqs -> Statuses]
    /\ \A r \in Reqs : (reply[r] # None) <=> (pc[r] = "done")

\* What they have in hand.
TypeHands ==
    /\ want \in [Reqs -> Hosts \X (Ports \union {AnyPort})]
    /\ hand \in [Reqs -> 0 .. made]
    /\ unseen \in [Reqs -> SUBSET Key]
    /\ found \in [Reqs -> SUBSET Key]
    /\ matched \in [Reqs -> SUBSET (1 .. made)]
    /\ early \in [Reqs -> SUBSET Clients]

\* A socket is bound to one key.
Exclusive == \A k, m \in Key : socket[k] = socket[m] /\ socket[k] # None => k = m

Live ==
    \A k \in Key : listed[k] # None =>
        /\ socket[k] = listed[k]
        /\ listed[k] \in serving
        /\ listed[k] \notin aborted

\* A listener in the hands of a POST is nobody else's and does not serve yet;
\* one in the hands of a DELETE is no longer listed.
Hands ==
    /\ \A r \in Reqs : pc[r] = "register" =>
         /\ hand[r] \in 1 .. made
         /\ hand[r] \notin serving /\ hand[r] \notin aborted
    /\ \A r, s \in Reqs : pc[r] = "register" /\ pc[s] = "register" /\ hand[r] = hand[s] => r = s
    /\ \A r \in Reqs : pc[r] \in Closing =>
         /\ hand[r] \in 1 .. made
         /\ hand[r] \in serving \/ hand[r] \in aborted
         /\ \A k \in Key : listed[k] # hand[r]

\* Where a listener that request r has matched still is to be found.
Reached(r, l) == \E k \in found[r] : socket[k] = l

\* What a DELETE under way has matched is aborted, or about to be.
MatchedGoing ==
    \A r \in Reqs : reply[r] = None =>
        \A l \in matched[r] :
            \/ l \in aborted
            \/ l \in serving /\ (Reached(r, l) \/ (pc[r] \in Closing /\ hand[r] = l))

\* The sessions it met there are closed, or their listener is still as it was.
EarlyGoing ==
    \A r \in Reqs : reply[r] = None =>
        \A c \in early[r] \intersect open :
            /\ session[c] \in serving /\ session[c] \notin aborted
            /\ \A s \in Reqs : pc[s] = "abort" => hand[s] # session[c]
            /\ Reached(r, session[c]) \/ (pc[r] = "sessions" /\ hand[r] = session[c])

History ==
    /\ \A r \in Reqs : pc[r] \in {"idle", "bind", "register"} => matched[r] = {} /\ early[r] = {}
    /\ \A r \in Reqs : \A c \in early[r] : session[c] # None
    /\ MatchedGoing
    /\ EarlyGoing
    /\ OkMeansClosed

Typed == TypeListeners /\ TypeHandlers /\ TypeHands

IInv == Typed /\ Exclusive /\ Live /\ Hands /\ History

-----------------------------------------------------------------------------
\* The handler of r goes to l; status x is its reply so far.
Moves(r, l, x) ==
    /\ l \in Labels /\ x \in Statuses /\ (x # None <=> l = "done")
    /\ pc' = [pc EXCEPT ![r] = l]
    /\ reply' = [reply EXCEPT ![r] = x]

\* A step of a handler that has no listener, before or after, and answers
\* nothing but a refusal.
Quiet(r) ==
    /\ UNCHANGED <<listeners, sessions, hand, found, history>>
    /\ unseen' \in [Reqs -> SUBSET Key]
    /\ want' \in [Reqs -> Hosts \X (Ports \union {AnyPort})]
    /\ \E l \in {"bind", "match", "remove", "done"}, x \in {None, 404, 409, 422} :
        /\ Moves(r, l, x)
        /\ pc[r] \in {"idle", "bind", "match"}
        /\ l = "bind" => pc[r] = "idle"

LEMMA TypeInit == Init => TypeOK
<1> SUFFICES ASSUME Init
             PROVE  TypeOK
  OBVIOUS
<1>1. (CHOOSE k \in Hosts \X {AnyPort} : TRUE) \in Hosts \X (Ports \union {AnyPort})
  <2>1. PICK h \in Hosts : TRUE
    BY RegistryConstants
  <2>2. <<h, AnyPort>> \in Hosts \X {AnyPort}
    OBVIOUS
  <2>3. (CHOOSE k \in Hosts \X {AnyPort} : TRUE) \in Hosts \X {AnyPort}
    BY <2>2
  <2>4. QED
    BY <2>3
<1>2. want \in [Reqs -> Hosts \X (Ports \union {AnyPort})]
  BY <1>1 DEF Init
<1>3. /\ made \in 0 .. MaxListeners /\ 0 \in 0 .. made
      /\ serving \subseteq 1 .. made /\ aborted \subseteq 1 .. made
  BY RegistryConstants DEF Init
<1>4. /\ pc \in [Reqs -> Labels] /\ reply \in [Reqs -> {None, 200, 204, 404, 409, 422}]
      /\ \A r \in Reqs : (reply[r] # None) <=> (pc[r] = "done")
  BY DEF Init, Labels
<1>5. /\ listed \in [Key -> 0 .. made] /\ socket \in [Key -> 0 .. made]
      /\ session \in [Clients -> 0 .. made] /\ hand \in [Reqs -> 0 .. made]
      /\ open \subseteq {c \in Clients : session[c] # None}
  BY <1>3 DEF Init, None
<1>6. /\ unseen \in [Reqs -> SUBSET Key] /\ found \in [Reqs -> SUBSET Key]
      /\ matched \in [Reqs -> SUBSET (1 .. made)] /\ early \in [Reqs -> SUBSET Clients]
  BY DEF Init
<1>7. QED
  BY <1>2, <1>3, <1>4, <1>5, <1>6 DEF TypeOK

\* Keys that a DELETE iterates over are keys.
LEMMA CloseKeys ==
    ASSUME NEW host \in Hosts, NEW port \in Ports \union {AnyPort}
    PROVE  (IF port = AnyPort THEN {host} \X Ports ELSE {<<host, port>>}) \in SUBSET Key
BY DEF Key

LEMMA TypeParts == TypeOK <=> Typed
BY DEF TypeOK, Typed, TypeListeners, TypeHandlers, TypeHands, Statuses

-----------------------------------------------------------------------------
(* What the actions do, with the moves of the handler put together.          *)

\* A handler that has not answered yet.
LEMMA Running ==
    ASSUME TypeHandlers, NEW r \in Reqs, pc[r] # "done"
    PROVE  /\ reply[r] = None
           /\ \A l \in Labels : l # "done" /\ Goto(r, l) /\ reply' = reply => Moves(r, l, None)
           /\ \A x \in Statuses : x # None /\ Answer(r, x) => Moves(r, "done", x)
<1>1. reply[r] = None
  BY DEF TypeHandlers
<1>2. reply = [reply EXCEPT ![r] = None]
  BY <1>1 DEF TypeHandlers
<1>3. QED
  BY <1>1, <1>2 DEF Moves, Goto, Answer, Statuses, Labels

LEMMA Moved ==
    ASSUME TypeHandlers, NEW r \in Reqs, NEW l, NEW x, Moves(r, l, x)
    PROVE  /\ TypeHandlers'
           /\ pc'[r] = l /\ reply'[r] = x
           /\ \A s \in Reqs : s # r => pc'[s] = pc[s] /\ reply'[s] = reply[s]
BY DEF TypeHandlers, Moves

LEMMA CreateEffect ==
    ASSUME TypeHandlers, TypeHands, NEW r \in Reqs, NEW host \in Hosts,
           NEW port \in Ports \union {AnyPort}, Create(r, host, port)
    PROVE  Quiet(r)
<1>1. pc[r] = "idle"
  BY DEF Create, Arrives
<1>2. Moves(r, "done", 409) \/ Moves(r, "done", 422) \/ Moves(r, "bind", None)
  BY <1>1, Running DEF Create, Labels, Statuses, None
<1>3. want' \in [Reqs -> Hosts \X (Ports \union {AnyPort})]
  BY DEF Create, TypeHands
<1>4. unseen' \in [Reqs -> SUBSET Key]
  BY DEF Create, TypeHands
<1>5. UNCHANGED <<listeners, sessions, hand, found, history>>
  BY DEF Create
<1>6. QED
  BY <1>1, <1>2, <1>3, <1>4, <1>5 DEF Quiet

LEMMA CloseEffect ==
    ASSUME TypeHandlers, TypeHands, NEW r \in Reqs, NEW host \in Hosts,
           NEW port \in Ports \union {AnyPort}, Close(r, host, port)
    PROVE  Quiet(r)
<1>1. pc[r] = "idle"
  BY DEF Close, Arrives
<1>2. Moves(r, "match", None)
  BY <1>1, Running DEF Close, Labels
<1>3. want' \in [Reqs -> Hosts \X (Ports \union {AnyPort})]
  BY DEF Close, TypeHands
<1>4. unseen' \in [Reqs -> SUBSET Key]
  BY CloseKeys DEF Close, TypeHands
<1>5. UNCHANGED <<listeners, sessions, hand, found, history>>
  BY DEF Close
<1>6. QED
  BY <1>1, <1>2, <1>3, <1>4, <1>5 DEF Quiet

LEMMA BindFailsEffect ==
    ASSUME TypeHandlers, TypeHands, NEW r \in Reqs, BindFails(r)
    PROVE  Quiet(r)
<1>1. pc[r] = "bind"
  BY DEF BindFails
<1>2. Moves(r, "done", 409) \/ Moves(r, "done", 422)
  BY <1>1, Running DEF BindFails, Statuses, None
<1>3. QED
  BY <1>1, <1>2 DEF Quiet, BindFails, TypeHands

LEMMA MatchedEffect ==
    ASSUME TypeHandlers, TypeHands, NEW r \in Reqs, Matched(r)
    PROVE  Quiet(r)
<1>1. pc[r] = "match"
  BY DEF Matched
<1>2. Moves(r, "done", 404) \/ Moves(r, "remove", None)
  BY <1>1, Running DEF Matched, Statuses, None, Labels
<1>3. QED
  BY <1>1, <1>2 DEF Quiet, Matched, TypeHands

LEMMA BindEffect ==
    ASSUME TypeHandlers, NEW r \in Reqs, NEW k \in Key, Bind(r, k)
    PROVE  /\ pc[r] = "bind" /\ Moves(r, "register", None)
           /\ made < MaxListeners /\ socket[k] = None
           /\ made' = made + 1
           /\ socket' = [socket EXCEPT ![k] = made']
           /\ hand' = [hand EXCEPT ![r] = made']
           /\ UNCHANGED <<listed, serving, aborted, sessions, want, unseen, found, history>>
<1>1. pc[r] = "bind"
  BY DEF Bind
<1>2. Moves(r, "register", None)
  BY <1>1, Running DEF Bind, Labels
<1>3. QED
  BY <1>1, <1>2 DEF Bind

LEMMA RegisterEffect ==
    ASSUME TypeHandlers, NEW r \in Reqs, Register(r)
    PROVE  /\ pc[r] = "register" /\ Moves(r, "done", 200)
           /\ \E k \in Key : socket[k] = hand[r] /\ listed' = [listed EXCEPT ![k] = hand[r]]
           /\ serving' = serving \union {hand[r]}
           /\ hand' = [hand EXCEPT ![r] = None]
           /\ UNCHANGED <<socket, aborted, made, sessions, want, unseen, found, history>>
<1>1. pc[r] = "register"
  BY DEF Register
<1>2. Moves(r, "done", 200)
  BY <1>1, Running DEF Register, Statuses, None
<1>3. QED
  BY <1>1, <1>2 DEF Register

LEMMA AbandonEffect ==
    ASSUME TypeHandlers, NEW r \in Reqs, Abandon(r)
    PROVE  /\ pc[r] = "register" /\ Moves(r, "done", 422)
           /\ socket' = [k \in Key |-> IF socket[k] = hand[r] THEN None ELSE socket[k]]
           /\ hand' = [hand EXCEPT ![r] = None]
           /\ UNCHANGED <<listed, serving, aborted, made, sessions, want, unseen, found, history>>
<1>1. pc[r] = "register"
  BY DEF Abandon
<1>2. Moves(r, "done", 422)
  BY <1>1, Running DEF Abandon, Statuses, None
<1>3. QED
  BY <1>1, <1>2 DEF Abandon

LEMMA RemoveEffect ==
    ASSUME TypeHandlers, NEW r \in Reqs, NEW k \in Key, Remove(r, k)
    PROVE  /\ pc[r] = "remove" /\ k \in found[r]
           /\ found' = [found EXCEPT ![r] = @ \ {k}]
           /\ \/ /\ Moves(r, "done", 404)
                 /\ UNCHANGED <<listed, hand>>
              \/ /\ Moves(r, "sessions", None)
                 /\ listed[k] # None
                 /\ hand' = [hand EXCEPT ![r] = listed[k]]
                 /\ listed' = [listed EXCEPT ![k] = None]
           /\ UNCHANGED <<socket, serving, aborted, made, sessions, want, unseen, history>>
<1>1. pc[r] = "remove"
  BY DEF Remove
<1>2. CASE listed[k] = None
  <2>1. Moves(r, "done", 404)
    BY <1>1, <1>2, Running DEF Remove, Statuses, None
  <2>2. QED
    BY <1>1, <1>2, <2>1 DEF Remove
<1>3. CASE listed[k] # None
  <2>1. Moves(r, "sessions", None)
    BY <1>1, <1>3, Running DEF Remove, Labels
  <2>2. QED
    BY <1>1, <1>3, <2>1 DEF Remove
<1>4. QED
  BY <1>2, <1>3

LEMMA CloseSessionsEffect ==
    ASSUME TypeHandlers, NEW r \in Reqs, CloseSessions(r)
    PROVE  /\ pc[r] = "sessions" /\ Moves(r, "abort", None)
           /\ open' = open \ ClientsOf(hand[r])
           /\ UNCHANGED <<listeners, session, want, hand, unseen, found, history>>
<1>1. pc[r] = "sessions"
  BY DEF CloseSessions
<1>2. Moves(r, "abort", None)
  BY <1>1, Running DEF CloseSessions, Labels
<1>3. QED
  BY <1>1, <1>2 DEF CloseSessions

LEMMA AbortEffect ==
    ASSUME TypeHandlers, NEW r \in Reqs, Abort(r)
    PROVE  /\ pc[r] = "abort"
           /\ \/ found[r] = {} /\ Moves(r, "done", 204)
              \/ found[r] # {} /\ Moves(r, "remove", None)
           /\ aborted' = aborted \union {hand[r]}
           /\ hand' = [hand EXCEPT ![r] = None]
           /\ UNCHANGED <<listed, socket, serving, made, sessions, want, unseen, found, history>>
<1>1. pc[r] = "abort"
  BY DEF Abort
<1>2. found[r] = {} => Moves(r, "done", 204)
  BY <1>1, Running DEF Abort, Statuses, None
<1>3. found[r] # {} => Moves(r, "remove", None)
  BY <1>1, Running DEF Abort, Labels
<1>4. QED
  BY <1>1, <1>2, <1>3 DEF Abort

-----------------------------------------------------------------------------
(* Each of them keeps the invariant.                                         *)

LEMMA QuietKeeps ==
    ASSUME IInv, NEW r \in Reqs, Quiet(r)
    PROVE  IInv'
<1> USE DEF IInv, Typed
<1>1. PICK l \in {"bind", "match", "remove", "done"}, x \in {None, 404, 409, 422} :
        /\ Moves(r, l, x)
        /\ pc[r] \in {"idle", "bind", "match"}
        /\ l = "bind" => pc[r] = "idle"
  BY DEF Quiet
<1>2. UNCHANGED <<listed, socket, serving, aborted, made, session, open, hand, found, matched, early>>
  BY DEF Quiet, listeners, sessions, history
<1>3. /\ TypeHandlers' /\ pc'[r] = l /\ reply'[r] = x
      /\ \A s \in Reqs : s # r => pc'[s] = pc[s] /\ reply'[s] = reply[s]
  BY <1>1, Moved
<1>4. TypeListeners' /\ TypeHands'
  BY <1>2 DEF Quiet, TypeListeners, TypeHands
<1>5. Exclusive' /\ Live'
  BY <1>2 DEF Exclusive, Live
<1>6. Hands'
  BY <1>1, <1>2, <1>3 DEF Hands, Closing
<1>7. History'
  <2>1. reply[r] = None
    BY <1>1, Running
  <2>2. /\ \A s \in Reqs : pc'[s] \in {"idle", "bind", "register"} => matched'[s] = {} /\ early'[s] = {}
        /\ \A s \in Reqs : \A c \in early'[s] : session'[c] # None
    BY <1>1, <1>2, <1>3 DEF History
  <2>3. MatchedGoing'
    BY <1>1, <1>2, <1>3, <2>1 DEF History, MatchedGoing, Reached, Closing
  <2>4. EarlyGoing'
    BY <1>1, <1>2, <1>3, <2>1 DEF History, EarlyGoing, Reached
  <2>5. OkMeansClosed'
    BY <1>1, <1>2, <1>3 DEF History, OkMeansClosed, None
  <2>6. QED
    BY <2>2, <2>3, <2>4, <2>5 DEF History
<1>8. QED
  BY <1>3, <1>4, <1>5, <1>6, <1>7

LEMMA BindKeeps ==
    ASSUME IInv, NEW r \in Reqs, NEW k \in Key, Bind(r, k)
    PROVE  IInv'
<1> USE DEF IInv, Typed
<1>0. made \in Nat /\ MaxListeners \in Nat /\ None = 0
  BY RegistryConstants DEF TypeListeners, None
<1>1. /\ pc[r] = "bind" /\ Moves(r, "register", None)
      /\ made < MaxListeners /\ socket[k] = None
      /\ made' = made + 1
      /\ socket' = [socket EXCEPT ![k] = made']
      /\ hand' = [hand EXCEPT ![r] = made']
      /\ UNCHANGED <<listed, serving, aborted, session, open, want, unseen, found, matched, early>>
  BY BindEffect DEF sessions, history
<1>2. /\ TypeHandlers' /\ pc'[r] = "register" /\ reply'[r] = None
      /\ \A s \in Reqs : s # r => pc'[s] = pc[s] /\ reply'[s] = reply[s]
  BY <1>1, Moved
<1>3. /\ 0 .. made \subseteq 0 .. made' /\ 1 .. made \subseteq 1 .. made' /\ made' \in 1 .. made'
      /\ made' \in 0 .. MaxListeners /\ made' \notin 0 .. made /\ made' # None
  BY <1>0, <1>1 DEF TypeListeners
<1>4. /\ \A m \in Key : socket[m] \in 0 .. made /\ listed[m] \in 0 .. made
      /\ \A m \in Key : socket'[m] = IF m = k THEN made' ELSE socket[m]
      /\ \A s \in Reqs : hand[s] \in 0 .. made
      /\ \A s \in Reqs : hand'[s] = IF s = r THEN made' ELSE hand[s]
  BY <1>1 DEF TypeListeners, TypeHands
<1>5. TypeListeners'
  BY <1>1, <1>3 DEF TypeListeners
<1>6. TypeHands'
  BY <1>1, <1>3 DEF TypeHands
<1>7. Exclusive'
  BY <1>3, <1>4 DEF Exclusive
<1>8. Live'
  BY <1>1, <1>3, <1>4 DEF Live
<1>9. Hands'
  <2>1. made' \notin serving /\ made' \notin aborted
    BY <1>0, <1>1 DEF TypeListeners
  <2>2. \A s \in Reqs : pc'[s] = "register" =>
          hand'[s] \in 1 .. made' /\ hand'[s] \notin serving' /\ hand'[s] \notin aborted'
    BY <1>1, <1>2, <1>3, <1>4, <2>1 DEF Hands
  <2>3. \A s, t \in Reqs : pc'[s] = "register" /\ pc'[t] = "register" /\ hand'[s] = hand'[t] => s = t
    BY <1>2, <1>3, <1>4 DEF Hands
  <2>4. \A s \in Reqs : pc'[s] \in Closing =>
          /\ hand'[s] \in 1 .. made'
          /\ hand'[s] \in serving' \/ hand'[s] \in aborted'
          /\ \A m \in Key : listed'[m] # hand'[s]
    BY <1>1, <1>2, <1>3, <1>4 DEF Hands, Closing
  <2>5. QED
    BY <2>2, <2>3, <2>4 DEF Hands
<1>10. History'
  <2>1. matched[r] = {} /\ early[r] = {}
    BY <1>1 DEF History
  <2>2. reply[r] = None
    BY <1>1, Running
  <2>3. \A s \in Reqs, l \in 1 .. made : Reached(s, l) => \E m \in found[s] : socket'[m] = l
    BY <1>0, <1>1, <1>4 DEF Reached, TypeHands
  <2>4. /\ \A s \in Reqs : pc'[s] \in {"idle", "bind", "register"} => matched'[s] = {} /\ early'[s] = {}
        /\ \A s \in Reqs : \A c \in early'[s] : session'[c] # None
    BY <1>1, <1>2, <2>1 DEF History
  <2>5. MatchedGoing'
    BY <1>1, <1>2, <1>4, <2>1, <2>3 DEF History, MatchedGoing, Reached, TypeHands
  <2>6. EarlyGoing'
    <3> SUFFICES ASSUME NEW s \in Reqs, reply'[s] = None, NEW c \in early'[s] \intersect open'
                 PROVE  /\ session'[c] \in serving' /\ session'[c] \notin aborted'
                        /\ \A t \in Reqs : pc'[t] = "abort" => hand'[t] # session'[c]
                        /\ \/ \E m \in found'[s] : socket'[m] = session'[c]
                           \/ pc'[s] = "sessions" /\ hand'[s] = session'[c]
      BY DEF EarlyGoing, Reached
    <3>1. s # r /\ reply[s] = None /\ c \in early[s] \intersect open
      BY <1>1, <1>2, <2>1
    <3>2. /\ session[c] \in serving /\ session[c] \notin aborted /\ serving \subseteq 1 .. made
          /\ \A t \in Reqs : pc[t] = "abort" => hand[t] # session[c]
          /\ Reached(s, session[c]) \/ (pc[s] = "sessions" /\ hand[s] = session[c])
      BY <3>1 DEF History, EarlyGoing, TypeListeners
    <3>3. Reached(s, session[c]) => \E m \in found[s] : socket'[m] = session[c]
      BY <2>3, <3>2 DEF Reached
    <3>4. QED
      BY <1>1, <1>2, <1>4, <3>1, <3>2, <3>3
  <2>7. OkMeansClosed'
    BY <1>0, <1>1, <1>2 DEF History, OkMeansClosed
  <2>8. QED
    BY <2>4, <2>5, <2>6, <2>7 DEF History
<1>11. QED
  BY <1>2, <1>5, <1>6, <1>7, <1>8, <1>9, <1>10

\* A handler that does not answer 204 promises nothing, and what is aborted or
\* closed stays so.
LEMMA OkKept ==
    ASSUME TypeHandlers, OkMeansClosed, NEW r \in Reqs, NEW l, NEW x, Moves(r, l, x), x # 204,
           UNCHANGED <<matched, early>>, aborted \subseteq aborted', open' \subseteq open
    PROVE  OkMeansClosed'
<1>1. /\ reply'[r] = x
      /\ \A s \in Reqs : s # r => reply'[s] = reply[s]
  BY Moved
<1>2. QED
  BY <1>1 DEF OkMeansClosed

LEMMA RegisterKeeps ==
    ASSUME IInv, NEW r \in Reqs, Register(r)
    PROVE  IInv'
<1> USE DEF IInv, Typed
<1>0. made \in Nat /\ None = 0 /\ None \notin 1 .. made /\ 1 .. made \subseteq 0 .. made /\ None \in 0 .. made
  BY RegistryConstants DEF TypeListeners, None
<1>1. /\ pc[r] = "register" /\ Moves(r, "done", 200)
      /\ serving' = serving \union {hand[r]}
      /\ hand' = [hand EXCEPT ![r] = None]
      /\ UNCHANGED <<socket, aborted, made, session, open, want, unseen, found, matched, early>>
  BY RegisterEffect DEF sessions, history
<1>2. PICK k \in Key : socket[k] = hand[r] /\ listed' = [listed EXCEPT ![k] = hand[r]]
  BY RegisterEffect
<1>3. /\ TypeHandlers' /\ pc'[r] = "done" /\ reply'[r] = 200
      /\ \A s \in Reqs : s # r => pc'[s] = pc[s] /\ reply'[s] = reply[s]
  BY <1>1, Moved
<1>4. hand[r] \in 1 .. made /\ hand[r] \notin serving /\ hand[r] \notin aborted
  BY <1>1 DEF Hands
<1>5. /\ \A m \in Key : listed'[m] = IF m = k THEN hand[r] ELSE listed[m]
      /\ \A s \in Reqs : hand'[s] = IF s = r THEN None ELSE hand[s]
  BY <1>1, <1>2 DEF TypeListeners, TypeHands
<1>6. TypeListeners'
  BY <1>0, <1>1, <1>2, <1>4 DEF TypeListeners
<1>7. TypeHands'
  BY <1>0, <1>1 DEF TypeHands
<1>8. Exclusive'
  BY <1>1 DEF Exclusive
<1>9. Live'
  BY <1>1, <1>2, <1>4, <1>5 DEF Live
<1>10. Hands'
  <2>1. \A s \in Reqs : pc'[s] = "register" =>
          hand'[s] \in 1 .. made' /\ hand'[s] \notin serving' /\ hand'[s] \notin aborted'
    BY <1>1, <1>3, <1>5 DEF Hands
  <2>2. \A s, t \in Reqs : pc'[s] = "register" /\ pc'[t] = "register" /\ hand'[s] = hand'[t] => s = t
    BY <1>3, <1>5 DEF Hands
  <2>3. \A s \in Reqs : pc'[s] \in Closing =>
          /\ hand'[s] \in 1 .. made'
          /\ hand'[s] \in serving' \/ hand'[s] \in aborted'
          /\ \A m \in Key : listed'[m] # hand'[s]
    BY <1>1, <1>3, <1>4, <1>5 DEF Hands, Closing
  <2>4. QED
    BY <2>1, <2>2, <2>3 DEF Hands
<1>11. History'
  <2>1. /\ \A s \in Reqs : pc'[s] \in {"idle", "bind", "register"} => matched'[s] = {} /\ early'[s] = {}
        /\ \A s \in Reqs : \A c \in early'[s] : session'[c] # None
    BY <1>1, <1>3 DEF History
  <2>2. MatchedGoing'
    BY <1>0, <1>1, <1>3, <1>5 DEF History, MatchedGoing, Reached
  <2>3. EarlyGoing'
    BY <1>0, <1>1, <1>3, <1>5 DEF History, EarlyGoing, Reached
  <2>4. OkMeansClosed'
    BY <1>1, OkKept DEF History
  <2>5. QED
    BY <2>1, <2>2, <2>3, <2>4 DEF History
<1>12. QED
  BY <1>3, <1>6, <1>7, <1>8, <1>9, <1>10, <1>11

LEMMA AbandonKeeps ==
    ASSUME IInv, NEW r \in Reqs, Abandon(r)
    PROVE  IInv'
<1> USE DEF IInv, Typed
<1>0. made \in Nat /\ None = 0 /\ None \notin 1 .. made /\ None \in 0 .. made
  BY RegistryConstants DEF TypeListeners, None
<1>1. /\ pc[r] = "register" /\ Moves(r, "done", 422)
      /\ socket' = [k \in Key |-> IF socket[k] = hand[r] THEN None ELSE socket[k]]
      /\ hand' = [hand EXCEPT ![r] = None]
      /\ UNCHANGED <<listed, serving, aborted, made, session, open, want, unseen, found, matched, early>>
  BY AbandonEffect DEF sessions, history
<1>2. /\ TypeHandlers' /\ pc'[r] = "done" /\ reply'[r] = 422
      /\ \A s \in Reqs : s # r => pc'[s] = pc[s] /\ reply'[s] = reply[s]
  BY <1>1, Moved
<1>3. hand[r] \in 1 .. made /\ hand[r] \notin serving
  BY <1>1 DEF Hands
<1>4. \A s \in Reqs : hand'[s] = IF s = r THEN None ELSE hand[s]
  BY <1>1 DEF TypeHands
<1>5. TypeListeners'
  BY <1>0, <1>1 DEF TypeListeners
<1>6. TypeHands'
  BY <1>0, <1>1 DEF TypeHands
<1>7. Exclusive'
  BY <1>1 DEF Exclusive
<1>8. Live'
  BY <1>1, <1>3 DEF Live
<1>9. Hands'
  BY <1>1, <1>2, <1>4 DEF Hands, Closing
<1>10. History'
  <2>1. \A s \in Reqs, l \in serving : Reached(s, l) => \E k \in found[s] : socket'[k] = l
    BY <1>1, <1>3 DEF Reached, TypeHands
  <2>2. /\ \A s \in Reqs : pc'[s] \in {"idle", "bind", "register"} => matched'[s] = {} /\ early'[s] = {}
        /\ \A s \in Reqs : \A c \in early'[s] : session'[c] # None
    BY <1>1, <1>2 DEF History
  <2>3. MatchedGoing'
    BY <1>0, <1>1, <1>2, <1>4, <2>1 DEF History, MatchedGoing, Reached
  <2>4. EarlyGoing'
    <3> SUFFICES ASSUME NEW s \in Reqs, reply'[s] = None, NEW c \in early'[s] \intersect open'
                 PROVE  /\ session'[c] \in serving' /\ session'[c] \notin aborted'
                        /\ \A t \in Reqs : pc'[t] = "abort" => hand'[t] # session'[c]
                        /\ \/ \E m \in found'[s] : socket'[m] = session'[c]
                           \/ pc'[s] = "sessions" /\ hand'[s] = session'[c]
      BY DEF EarlyGoing, Reached
    <3>1. s # r /\ reply[s] = None /\ c \in early[s] \intersect open
      BY <1>0, <1>1, <1>2
    <3>2. /\ session[c] \in serving /\ session[c] \notin aborted
          /\ \A t \in Reqs : pc[t] = "abort" => hand[t] # session[c]
          /\ Reached(s, session[c]) \/ (pc[s] = "sessions" /\ hand[s] = session[c])
      BY <3>1 DEF History, EarlyGoing
    <3>3. Reached(s, session[c]) => \E m \in found[s] : socket'[m] = session[c]
      BY <2>1, <3>2
    <3>4. QED
      BY <1>1, <1>2, <1>4, <3>1, <3>2, <3>3
  <2>5. OkMeansClosed'
    BY <1>1, OkKept DEF History
  <2>6. QED
    BY <2>2, <2>3, <2>4, <2>5 DEF History
<1>11. QED
  BY <1>2, <1>5, <1>6, <1>7, <1>8, <1>9, <1>10

LEMMA MatchKeeps ==
    ASSUME IInv, NEW r \in Reqs, NEW k \in Key, Match(r, k)
    PROVE  IInv'
<1> USE DEF IInv, Typed
<1>1. /\ pc[r] = "match"
      /\ unseen' = [unseen EXCEPT ![r] = @ \ {k}]
      /\ UNCHANGED <<listed, socket, serving, aborted, made, session, open, pc, want, hand, reply>>
  BY DEF Match, listeners, sessions
<1>2. /\ unseen' \in [Reqs -> SUBSET Key]
      /\ reply[r] = None
  BY <1>1, Running DEF TypeHands
<1>3. CASE listed[k] = None
  <2>1. UNCHANGED <<found, matched, early>>
    BY <1>3 DEF Match, history
  <2>2. TypeListeners' /\ TypeHandlers' /\ TypeHands'
    BY <1>1, <1>2, <2>1 DEF TypeListeners, TypeHandlers, TypeHands
  <2>3. Exclusive' /\ Live' /\ Hands'
    BY <1>1 DEF Exclusive, Live, Hands
  <2>4. History'
    BY <1>1, <2>1 DEF History, MatchedGoing, EarlyGoing, OkMeansClosed, Reached
  <2>5. QED
    BY <2>2, <2>3, <2>4
<1>4. CASE listed[k] # None
  <2>1. /\ found' = [found EXCEPT ![r] = @ \union {k}]
        /\ matched' = [matched EXCEPT ![r] = @ \union {listed[k]}]
        /\ early' = [early EXCEPT ![r] = @ \union ClientsOf(listed[k])]
    BY <1>4 DEF Match
  <2>2. /\ listed[k] \in 1 .. made /\ ClientsOf(listed[k]) \subseteq Clients
        /\ socket[k] = listed[k] /\ listed[k] \in serving /\ listed[k] \notin aborted
    BY <1>4 DEF TypeListeners, Live, ClientsOf
  <2>3. TypeListeners' /\ TypeHandlers'
    BY <1>1 DEF TypeListeners, TypeHandlers
  <2>4. TypeHands'
    BY <1>1, <1>2, <2>1, <2>2 DEF TypeHands
  <2>5. Exclusive' /\ Live' /\ Hands'
    BY <1>1 DEF Exclusive, Live, Hands
  <2>6. /\ \A s \in Reqs : found'[s] = IF s = r THEN found[r] \union {k} ELSE found[s]
        /\ \A s \in Reqs : matched'[s] = IF s = r THEN matched[r] \union {listed[k]} ELSE matched[s]
        /\ \A s \in Reqs : early'[s] = IF s = r THEN early[r] \union ClientsOf(listed[k]) ELSE early[s]
    BY <2>1 DEF TypeHands
  <2>7. \A c \in ClientsOf(listed[k]) : session[c] = listed[k]
    BY DEF ClientsOf
  <2>8. \A s \in Reqs : pc[s] = "abort" => hand[s] # listed[k]
    BY DEF Hands, Closing
  <2>9. /\ \A s \in Reqs : pc'[s] \in {"idle", "bind", "register"} => matched'[s] = {} /\ early'[s] = {}
        /\ \A s \in Reqs : \A c \in early'[s] : session'[c] # None
    BY <1>1, <1>4, <2>6, <2>7 DEF History
  <2>10. MatchedGoing'
    BY <1>1, <2>2, <2>6 DEF History, MatchedGoing, Reached
  <2>11. EarlyGoing'
    <3> SUFFICES ASSUME NEW s \in Reqs, reply'[s] = None, NEW c \in early'[s] \intersect open'
                 PROVE  /\ session'[c] \in serving' /\ session'[c] \notin aborted'
                        /\ \A t \in Reqs : pc'[t] = "abort" => hand'[t] # session'[c]
                        /\ \/ \E m \in found'[s] : socket'[m] = session'[c]
                           \/ pc'[s] = "sessions" /\ hand'[s] = session'[c]
      BY DEF EarlyGoing, Reached
    <3>1. CASE c \in early[s]
      BY <1>1, <2>6, <3>1 DEF History, EarlyGoing, Reached
    <3>2. CASE c \notin early[s]
      BY <1>1, <2>2, <2>6, <2>7, <2>8, <3>2
    <3>3. QED
      BY <3>1, <3>2
  <2>12. OkMeansClosed'
    BY <1>1, <1>2, <2>6 DEF History, OkMeansClosed, None
  <2>13. QED
    BY <2>3, <2>4, <2>5, <2>9, <2>10, <2>11, <2>12 DEF History
<1>5. QED
  BY <1>3, <1>4

\* The entry has gone since it was matched: the handler answers 404.
LEMMA GoneKeeps ==
    ASSUME IInv, NEW r \in Reqs, NEW k \in Key, pc[r] = "remove", Moves(r, "done", 404),
           found' = [found EXCEPT ![r] = @ \ {k}],
           UNCHANGED <<listed, socket, serving, aborted, made, session, open, want, hand, unseen,
                       matched, early>>
    PROVE  IInv'
<1> USE DEF IInv, Typed
<1>1. /\ TypeHandlers' /\ pc'[r] = "done" /\ reply'[r] = 404
      /\ \A s \in Reqs : s # r => pc'[s] = pc[s] /\ reply'[s] = reply[s]
  BY Moved
<1>2. \A s \in Reqs : found'[s] = IF s = r THEN found[r] \ {k} ELSE found[s]
  BY DEF TypeHands
<1>3. TypeListeners' /\ TypeHands'
  BY DEF TypeListeners, TypeHands
<1>4. Exclusive' /\ Live'
  BY DEF Exclusive, Live
<1>5. Hands'
  BY <1>1 DEF Hands, Closing
<1>6. History'
  <2>1. /\ \A s \in Reqs : pc'[s] \in {"idle", "bind", "register"} => matched'[s] = {} /\ early'[s] = {}
        /\ \A s \in Reqs : \A c \in early'[s] : session'[c] # None
    BY <1>1 DEF History
  <2>2. MatchedGoing'
    BY <1>1, <1>2 DEF History, MatchedGoing, Reached, None
  <2>3. EarlyGoing'
    <3> SUFFICES ASSUME NEW s \in Reqs, reply'[s] = None, NEW c \in early'[s] \intersect open'
                 PROVE  /\ session'[c] \in serving' /\ session'[c] \notin aborted'
                        /\ \A t \in Reqs : pc'[t] = "abort" => hand'[t] # session'[c]
                        /\ \/ \E m \in found'[s] : socket'[m] = session'[c]
                           \/ pc'[s] = "sessions" /\ hand'[s] = session'[c]
      BY DEF EarlyGoing, Reached
    <3>1. s # r /\ reply[s] = None /\ c \in early[s] \intersect open
      BY <1>1 DEF None
    <3>2. /\ session[c] \in serving /\ session[c] \notin aborted
          /\ \A t \in Reqs : pc[t] = "abort" => hand[t] # session[c]
          /\ Reached(s, session[c]) \/ (pc[s] = "sessions" /\ hand[s] = session[c])
      BY <3>1 DEF History, EarlyGoing
    <3>3. QED
      BY <1>1, <1>2, <3>1, <3>2 DEF Reached
  <2>4. OkMeansClosed'
    BY OkKept DEF History
  <2>5. QED
    BY <2>1, <2>2, <2>3, <2>4 DEF History
<1>7. QED
  BY <1>1, <1>3, <1>4, <1>5, <1>6

LEMMA RemoveKeeps ==
    ASSUME IInv, NEW r \in Reqs, NEW k \in Key, Remove(r, k)
    PROVE  IInv'
<1> USE DEF IInv, Typed
<1>1. /\ pc[r] = "remove" /\ k \in found[r]
      /\ found' = [found EXCEPT ![r] = @ \ {k}]
      /\ UNCHANGED <<socket, serving, aborted, made, session, open, want, unseen, matched, early>>
  BY RemoveEffect DEF sessions, history
<1>2. CASE Moves(r, "done", 404) /\ UNCHANGED <<listed, hand>>
  BY <1>1, <1>2, GoneKeeps
<1>3. CASE /\ Moves(r, "sessions", None)
           /\ listed[k] # None
           /\ hand' = [hand EXCEPT ![r] = listed[k]]
           /\ listed' = [listed EXCEPT ![k] = None]
  <2>0. None \in 0 .. made
    BY RegistryConstants DEF TypeListeners, None
  <2>1. /\ TypeHandlers' /\ pc'[r] = "sessions" /\ reply'[r] = None
        /\ \A s \in Reqs : s # r => pc'[s] = pc[s] /\ reply'[s] = reply[s]
    BY <1>3, Moved
  <2>2. /\ listed[k] \in 1 .. made
        /\ socket[k] = listed[k] /\ listed[k] \in serving /\ listed[k] \notin aborted
    BY <1>3 DEF TypeListeners, Live
  <2>3. /\ \A s \in Reqs : found'[s] = IF s = r THEN found[r] \ {k} ELSE found[s]
        /\ \A s \in Reqs : hand'[s] = IF s = r THEN listed[k] ELSE hand[s]
        /\ \A m \in Key : listed'[m] = IF m = k THEN None ELSE listed[m]
    BY <1>1, <1>3 DEF TypeListeners, TypeHands
  <2>4. TypeListeners'
    BY <1>1, <1>3, <2>0 DEF TypeListeners
  <2>5. TypeHands'
    BY <1>1, <1>3, <2>2 DEF TypeHands
  <2>6. Exclusive' /\ Live'
    BY <1>1, <2>3 DEF Exclusive, Live
  <2>7. \A m \in Key : listed'[m] # listed[k]
    BY <1>3, <2>2, <2>3 DEF Exclusive, Live
  <2>8. Hands'
    <3>1. /\ \A s \in Reqs : pc'[s] = "register" =>
               hand'[s] \in 1 .. made' /\ hand'[s] \notin serving' /\ hand'[s] \notin aborted'
          /\ \A s, t \in Reqs : pc'[s] = "register" /\ pc'[t] = "register" /\ hand'[s] = hand'[t] => s = t
      BY <1>1, <2>1, <2>3 DEF Hands
    <3>2. ASSUME NEW s \in Reqs, pc'[s] \in Closing
          PROVE  /\ hand'[s] \in 1 .. made'
                 /\ hand'[s] \in serving' \/ hand'[s] \in aborted'
                 /\ \A m \in Key : listed'[m] # hand'[s]
      <4>1. CASE s = r
        BY <1>1, <2>2, <2>3, <2>7, <4>1
      <4>2. CASE s # r
        <5>1. /\ hand[s] \in 1 .. made /\ (hand[s] \in serving \/ hand[s] \in aborted)
              /\ \A m \in Key : listed[m] # hand[s]
          BY <2>1, <3>2, <4>2 DEF Hands
        <5>2. None \notin 1 .. made
          BY DEF None
        <5>3. QED
          BY <1>1, <2>3, <4>2, <5>1, <5>2
      <4>3. QED
        BY <4>1, <4>2
    <3>3. QED
      BY <3>1, <3>2 DEF Hands
  <2>9. History'
    <3>0. reply[r] = None
      BY <1>1, Running
    <3>1. /\ \A s \in Reqs : pc'[s] \in {"idle", "bind", "register"} => matched'[s] = {} /\ early'[s] = {}
          /\ \A s \in Reqs : \A c \in early'[s] : session'[c] # None
      BY <1>1, <2>1 DEF History
    <3>2. MatchedGoing'
      <4> SUFFICES ASSUME NEW s \in Reqs, reply'[s] = None, NEW l \in matched'[s], l \notin aborted'
                   PROVE  /\ l \in serving'
                          /\ \/ \E m \in found'[s] : socket'[m] = l
                             \/ pc'[s] \in Closing /\ hand'[s] = l
        BY DEF MatchedGoing, Reached
      <4>1. /\ l \in serving
            /\ (\E m \in found[s] : socket[m] = l) \/ (pc[s] \in Closing /\ hand[s] = l)
        BY <1>1, <2>1, <3>0 DEF History, MatchedGoing, Reached
      <4>2. QED
        BY <1>1, <2>1, <2>2, <2>3, <4>1 DEF Closing
    <3>3. EarlyGoing'
      <4> SUFFICES ASSUME NEW s \in Reqs, reply'[s] = None, NEW c \in early'[s] \intersect open'
                   PROVE  /\ session'[c] \in serving' /\ session'[c] \notin aborted'
                          /\ \A t \in Reqs : pc'[t] = "abort" => hand'[t] # session'[c]
                          /\ \/ \E m \in found'[s] : socket'[m] = session'[c]
                             \/ pc'[s] = "sessions" /\ hand'[s] = session'[c]
        BY DEF EarlyGoing, Reached
      <4>1. reply[s] = None /\ c \in early[s] \intersect open
        BY <1>1, <2>1, <3>0
      <4>2. /\ session[c] \in serving /\ session[c] \notin aborted
            /\ \A t \in Reqs : pc[t] = "abort" => hand[t] # session[c]
            /\ Reached(s, session[c]) \/ (pc[s] = "sessions" /\ hand[s] = session[c])
        BY <4>1 DEF History, EarlyGoing
      <4>3. QED
        BY <1>1, <2>1, <2>2, <2>3, <4>1, <4>2 DEF Reached
    <3>4. OkMeansClosed'
      BY <1>1, <1>3, OkKept DEF History, None
    <3>5. QED
      BY <3>1, <3>2, <3>3, <3>4 DEF History
  <2>10. QED
    BY <2>1, <2>4, <2>5, <2>6, <2>8, <2>9
<1>4. QED
  BY <1>2, <1>3, RemoveEffect

LEMMA CloseSessionsKeeps ==
    ASSUME IInv, NEW r \in Reqs, CloseSessions(r)
    PROVE  IInv'
<1> USE DEF IInv, Typed
<1>1. /\ pc[r] = "sessions" /\ Moves(r, "abort", None)
      /\ open' = open \ ClientsOf(hand[r])
      /\ UNCHANGED <<listed, socket, serving, aborted, made, session, want, hand, unseen, found,
                     matched, early>>
  BY CloseSessionsEffect DEF listeners, history
<1>2. /\ TypeHandlers' /\ pc'[r] = "abort" /\ reply'[r] = None
      /\ \A s \in Reqs : s # r => pc'[s] = pc[s] /\ reply'[s] = reply[s]
  BY <1>1, Moved
<1>3. reply[r] = None
  BY <1>1, Running
<1>4. TypeListeners' /\ TypeHands'
  BY <1>1 DEF TypeListeners, TypeHands
<1>5. Exclusive' /\ Live'
  BY <1>1 DEF Exclusive, Live
<1>6. Hands'
  BY <1>1, <1>2 DEF Hands, Closing
<1>7. History'
  <2>1. /\ \A s \in Reqs : pc'[s] \in {"idle", "bind", "register"} => matched'[s] = {} /\ early'[s] = {}
        /\ \A s \in Reqs : \A c \in early'[s] : session'[c] # None
    BY <1>1, <1>2 DEF History
  <2>2. MatchedGoing'
    BY <1>1, <1>2, <1>3 DEF History, MatchedGoing, Reached, Closing
  <2>3. EarlyGoing'
    <3> SUFFICES ASSUME NEW s \in Reqs, reply'[s] = None, NEW c \in early'[s] \intersect open'
                 PROVE  /\ session'[c] \in serving' /\ session'[c] \notin aborted'
                        /\ \A t \in Reqs : pc'[t] = "abort" => hand'[t] # session'[c]
                        /\ \/ \E m \in found'[s] : socket'[m] = session'[c]
                           \/ pc'[s] = "sessions" /\ hand'[s] = session'[c]
      BY DEF EarlyGoing, Reached
    <3>1. reply[s] = None /\ c \in early[s] \intersect open /\ session[c] # hand[r]
      BY <1>1, <1>2, <1>3 DEF ClientsOf
    <3>2. /\ session[c] \in serving /\ session[c] \notin aborted
          /\ \A t \in Reqs : pc[t] = "abort" => hand[t] # session[c]
          /\ Reached(s, session[c]) \/ (pc[s] = "sessions" /\ hand[s] = session[c])
      BY <3>1 DEF History, EarlyGoing
    <3>3. QED
      BY <1>1, <1>2, <3>1, <3>2 DEF Reached
  <2>4. OkMeansClosed'
    BY <1>1, OkKept DEF History, None
  <2>5. QED
    BY <2>1, <2>2, <2>3, <2>4 DEF History
<1>8. QED
  BY <1>2, <1>4, <1>5, <1>6, <1>7

LEMMA AbortKeeps ==
    ASSUME IInv, NEW r \in Reqs, Abort(r)
    PROVE  IInv'
<1> USE DEF IInv, Typed
<1>1. /\ pc[r] = "abort"
      /\ aborted' = aborted \union {hand[r]}
      /\ hand' = [hand EXCEPT ![r] = None]
      /\ UNCHANGED <<listed, socket, serving, made, session, open, want, unseen, found, matched, early>>
  BY AbortEffect DEF sessions, history
<1>2. PICK l, x :
        /\ Moves(r, l, x) /\ l \in {"done", "remove"}
        /\ x = None \/ (x = 204 /\ found[r] = {})
  BY AbortEffect
<1>3. /\ TypeHandlers' /\ pc'[r] = l /\ reply'[r] = x
      /\ \A s \in Reqs : s # r => pc'[s] = pc[s] /\ reply'[s] = reply[s]
  BY <1>2, Moved
<1>4. None \in 0 .. made /\ None \notin 1 .. made
  BY RegistryConstants DEF TypeListeners, None
<1>5. /\ hand[r] \in 1 .. made
      /\ hand[r] \in serving \/ hand[r] \in aborted
      /\ \A m \in Key : listed[m] # hand[r]
  BY <1>1 DEF Hands, Closing
<1>6. \A s \in Reqs : hand'[s] = IF s = r THEN None ELSE hand[s]
  BY <1>1 DEF TypeHands
<1>7. TypeListeners' /\ TypeHands'
  BY <1>1, <1>4, <1>5 DEF TypeListeners, TypeHands
<1>8. Exclusive' /\ Live'
  BY <1>1, <1>5 DEF Exclusive, Live
<1>9. Hands'
  <2>1. \A s \in Reqs : pc'[s] = "register" =>
          hand'[s] \in 1 .. made' /\ hand'[s] \notin serving' /\ hand'[s] \notin aborted'
    BY <1>1, <1>2, <1>3, <1>5, <1>6 DEF Hands
  <2>2. \A s, t \in Reqs : pc'[s] = "register" /\ pc'[t] = "register" /\ hand'[s] = hand'[t] => s = t
    BY <1>2, <1>3, <1>6 DEF Hands
  <2>3. \A s \in Reqs : pc'[s] \in Closing =>
          /\ hand'[s] \in 1 .. made'
          /\ hand'[s] \in serving' \/ hand'[s] \in aborted'
          /\ \A m \in Key : listed'[m] # hand'[s]
    BY <1>1, <1>2, <1>3, <1>6 DEF Hands, Closing
  <2>4. QED
    BY <2>1, <2>2, <2>3 DEF Hands
<1>10. History'
  <2>0. reply[r] = None
    BY <1>1, Running
  <2>1. /\ \A s \in Reqs : pc'[s] \in {"idle", "bind", "register"} => matched'[s] = {} /\ early'[s] = {}
        /\ \A s \in Reqs : \A c \in early'[s] : session'[c] # None
    BY <1>1, <1>2, <1>3 DEF History
  <2>2. ASSUME NEW s \in Reqs, reply[s] = None, NEW m \in matched[s], m \notin aborted'
        PROVE  m \in serving /\ (Reached(s, m) \/ (s # r /\ pc[s] \in Closing /\ hand[s] = m))
    BY <1>1, <2>2 DEF History, MatchedGoing
  <2>3. ASSUME NEW s \in Reqs, reply[s] = None, NEW c \in early[s] \intersect open
        PROVE  /\ session[c] \in serving /\ session[c] \notin aborted'
               /\ \A t \in Reqs : pc[t] = "abort" => hand[t] # session[c]
               /\ Reached(s, session[c]) \/ (s # r /\ pc[s] = "sessions" /\ hand[s] = session[c])
    BY <1>1, <2>3 DEF History, EarlyGoing
  <2>4. MatchedGoing'
    BY <1>1, <1>3, <1>6, <2>0, <2>2 DEF MatchedGoing, Reached
  <2>5. EarlyGoing'
    <3> SUFFICES ASSUME NEW s \in Reqs, reply'[s] = None, NEW c \in early'[s] \intersect open'
                 PROVE  /\ session'[c] \in serving' /\ session'[c] \notin aborted'
                        /\ \A t \in Reqs : pc'[t] = "abort" => hand'[t] # session'[c]
                        /\ \/ \E m \in found'[s] : socket'[m] = session'[c]
                           \/ pc'[s] = "sessions" /\ hand'[s] = session'[c]
      BY DEF EarlyGoing, Reached
    <3>1. reply[s] = None /\ c \in early[s] \intersect open
      BY <1>1, <1>3, <2>0
    <3>2. \A t \in Reqs : pc'[t] = "abort" => t # r /\ pc[t] = "abort"
      BY <1>2, <1>3
    <3>3. QED
      BY <1>1, <1>3, <1>6, <2>3, <3>1, <3>2 DEF Reached
  <2>6. OkMeansClosed'
    <3> SUFFICES ASSUME NEW s \in Reqs, reply'[s] = 204
                 PROVE  matched'[s] \subseteq aborted' /\ early'[s] \intersect open' = {}
      BY DEF OkMeansClosed
    <3>1. CASE s # r
      BY <1>1, <1>3, <3>1 DEF History, OkMeansClosed
    <3>2. CASE s = r
      <4>1. \A m : ~Reached(r, m)
        BY <1>2, <1>3, <3>2 DEF Reached, None
      <4>2. QED
        BY <1>1, <2>0, <2>2, <2>3, <3>2, <4>1
    <3>3. QED
      BY <3>1, <3>2
  <2>7. QED
    BY <2>1, <2>4, <2>5, <2>6 DEF History
<1>11. QED
  BY <1>3, <1>7, <1>8, <1>9, <1>10

LEMMA EndsKeeps ==
    ASSUME IInv, NEW l \in Listener, Ends(l)
    PROVE  IInv'
<1> USE DEF IInv, Typed
<1>1. /\ l \in serving /\ l \in aborted
      /\ serving' = serving \ {l}
      /\ socket' = [k \in Key |-> IF socket[k] = l THEN None ELSE socket[k]]
      /\ UNCHANGED <<listed, aborted, made, session, open, pc, want, hand, unseen, found, reply,
                     matched, early>>
  BY DEF Ends, sessions, history
<1>2. None \in 0 .. made /\ None \notin 1 .. made
  BY RegistryConstants DEF TypeListeners, None
<1>3. TypeListeners' /\ TypeHandlers' /\ TypeHands'
  BY <1>1, <1>2 DEF TypeListeners, TypeHandlers, TypeHands
<1>4. Exclusive'
  BY <1>1 DEF Exclusive
<1>5. Live'
  BY <1>1 DEF Live
<1>6. Hands'
  BY <1>1 DEF Hands
<1>7. History'
  <2>1. \A s \in Reqs, m \in 1 .. made : m # l /\ Reached(s, m) => \E k \in found[s] : socket'[k] = m
    BY <1>1, <1>2 DEF Reached, TypeHands
  <2>2. MatchedGoing'
    <3> SUFFICES ASSUME NEW s \in Reqs, reply'[s] = None, NEW m \in matched'[s], m \notin aborted'
                 PROVE  /\ m \in serving'
                        /\ \/ \E k \in found'[s] : socket'[k] = m
                           \/ pc'[s] \in Closing /\ hand'[s] = m
      BY DEF MatchedGoing, Reached
    <3>1. m \in serving /\ (Reached(s, m) \/ (pc[s] \in Closing /\ hand[s] = m))
      BY <1>1 DEF History, MatchedGoing
    <3>2. m # l /\ m \in 1 .. made
      BY <1>1, <3>1 DEF TypeListeners
    <3>3. Reached(s, m) => \E k \in found[s] : socket'[k] = m
      BY <2>1, <3>2
    <3>4. QED
      BY <1>1, <3>1, <3>2, <3>3
  <2>3. EarlyGoing'
    <3> SUFFICES ASSUME NEW s \in Reqs, reply'[s] = None, NEW c \in early'[s] \intersect open'
                 PROVE  /\ session'[c] \in serving' /\ session'[c] \notin aborted'
                        /\ \A t \in Reqs : pc'[t] = "abort" => hand'[t] # session'[c]
                        /\ \/ \E m \in found'[s] : socket'[m] = session'[c]
                           \/ pc'[s] = "sessions" /\ hand'[s] = session'[c]
      BY DEF EarlyGoing, Reached
    <3>1. reply[s] = None /\ c \in early[s] \intersect open
      BY <1>1
    <3>2. /\ session[c] \in serving /\ session[c] \notin aborted
          /\ \A t \in Reqs : pc[t] = "abort" => hand[t] # session[c]
          /\ Reached(s, session[c]) \/ (pc[s] = "sessions" /\ hand[s] = session[c])
      BY <3>1 DEF History, EarlyGoing
    <3>3. session[c] # l /\ session[c] \in 1 .. made
      BY <1>1, <3>2 DEF TypeListeners
    <3>4. Reached(s, session[c]) => \E m \in found[s] : socket'[m] = session[c]
      BY <2>1, <3>3
    <3>5. QED
      BY <1>1, <3>2, <3>3, <3>4
  <2>4. QED
    BY <1>1, <2>2, <2>3 DEF History, OkMeansClosed
<1>8. QED
  BY <1>3, <1>4, <1>5, <1>6, <1>7

LEMMA ConnectKeeps ==
    ASSUME IInv, NEW l \in Listener, NEW c \in Clients, Connect(l, c)
    PROVE  IInv'
<1> USE DEF IInv, Typed
<1>1. /\ l \in serving /\ session[c] = None
      /\ session' = [session EXCEPT ![c] = l]
      /\ open' = open \union {c}
      /\ UNCHANGED <<listed, socket, serving, aborted, made, pc, want, hand, unseen, found, reply,
                     matched, early>>
  BY DEF Connect, listeners, history
<1>2. l \in 0 .. made /\ l # None
  BY <1>1, RegistryConstants DEF TypeListeners, None
<1>3. \A d \in Clients : session'[d] = IF d = c THEN l ELSE session[d]
  BY <1>1 DEF TypeListeners
<1>4. TypeListeners'
  BY <1>1, <1>2, <1>3 DEF TypeListeners
<1>5. TypeHandlers' /\ TypeHands'
  BY <1>1 DEF TypeHandlers, TypeHands
<1>6. Exclusive' /\ Live' /\ Hands'
  BY <1>1 DEF Exclusive, Live, Hands
<1>7. History'
  <2>1. \A s \in Reqs : c \notin early[s] /\ early[s] \subseteq Clients
    BY <1>1 DEF History, TypeHands
  <2>2. /\ \A s \in Reqs : pc'[s] \in {"idle", "bind", "register"} => matched'[s] = {} /\ early'[s] = {}
        /\ \A s \in Reqs : \A d \in early'[s] : session'[d] # None
    BY <1>1, <1>3, <2>1 DEF History
  <2>3. MatchedGoing'
    BY <1>1 DEF History, MatchedGoing, Reached
  <2>4. EarlyGoing'
    BY <1>1, <1>3, <2>1 DEF History, EarlyGoing, Reached
  <2>5. OkMeansClosed'
    BY <1>1, <2>1 DEF History, OkMeansClosed
  <2>6. QED
    BY <2>2, <2>3, <2>4, <2>5 DEF History
<1>8. QED
  BY <1>4, <1>5, <1>6, <1>7

LEMMA DisconnectKeeps ==
    ASSUME IInv, NEW c \in Clients, Disconnect(c)
    PROVE  IInv'
<1> USE DEF IInv, Typed
<1>1. /\ open' = open \ {c}
      /\ UNCHANGED <<listed, socket, serving, aborted, made, session, pc, want, hand, unseen, found,
                     reply, matched, early>>
  BY DEF Disconnect, listeners, history
<1>2. Typed'
  BY <1>1 DEF TypeListeners, TypeHandlers, TypeHands
<1>3. Exclusive' /\ Live' /\ Hands'
  BY <1>1 DEF Exclusive, Live, Hands
<1>4. History'
  BY <1>1 DEF History, MatchedGoing, EarlyGoing, OkMeansClosed, Reached
<1>5. QED
  BY <1>2, <1>3, <1>4

LEMMA StutterKeeps ==
    ASSUME IInv, UNCHANGED vars
    PROVE  IInv'
<1>1. UNCHANGED <<listed, socket, serving, aborted, made, session, open, pc, want, hand, unseen,
                  found, reply, matched, early>>
  BY DEF vars
<1>2. Typed' /\ Exclusive' /\ Live' /\ Hands'
  BY <1>1 DEF IInv, Typed, TypeListeners, TypeHandlers, TypeHands, Exclusive, Live, Hands
<1>3. History'
  BY <1>1 DEF IInv, History, MatchedGoing, EarlyGoing, OkMeansClosed, Reached
<1>4. QED
  BY <1>2, <1>3 DEF IInv

-----------------------------------------------------------------------------
LEMMA InvInit == Init => IInv
<1> SUFFICES ASSUME Init
             PROVE  IInv
  OBVIOUS
<1>1. Typed
  BY TypeInit, TypeParts
<1>2. /\ \A k \in Key : listed[k] = None /\ socket[k] = None
      /\ \A r \in Reqs : pc[r] = "idle" /\ reply[r] = None /\ matched[r] = {} /\ early[r] = {}
  BY DEF Init
<1>3. Exclusive /\ Live /\ Hands
  BY <1>2 DEF Exclusive, Live, Hands, Closing
<1>4. History
  BY <1>2 DEF History, MatchedGoing, EarlyGoing, OkMeansClosed, None
<1>5. QED
  BY <1>1, <1>3, <1>4 DEF IInv

LEMMA InvStep ==
    ASSUME IInv, [Next]_vars
    PROVE  IInv'
<1>1. CASE UNCHANGED vars
  BY <1>1, StutterKeeps
<1>2. ASSUME NEW r \in Reqs, NEW host \in Hosts, NEW port \in Ports \union {AnyPort},
             Create(r, host, port) \/ Close(r, host, port)
      PROVE  IInv'
  BY <1>2, CreateEffect, CloseEffect, QuietKeeps DEF IInv, Typed
<1>3. ASSUME NEW r \in Reqs, BindFails(r) \/ Matched(r)
      PROVE  IInv'
  BY <1>3, BindFailsEffect, MatchedEffect, QuietKeeps DEF IInv, Typed
<1>4. ASSUME NEW r \in Reqs, Register(r) \/ Abandon(r) \/ CloseSessions(r) \/ Abort(r)
      PROVE  IInv'
  BY <1>4, RegisterKeeps, AbandonKeeps, CloseSessionsKeeps, AbortKeeps
<1>5. ASSUME NEW r \in Reqs, NEW k \in Key, Bind(r, k) \/ Match(r, k) \/ Remove(r, k)
      PROVE  IInv'
  BY <1>5, BindKeeps, MatchKeeps, RemoveKeeps
<1>6. ASSUME NEW l \in Listener, Ends(l) \/ \E c \in Clients : Connect(l, c)
      PROVE  IInv'
  BY <1>6, EndsKeeps, ConnectKeeps
<1>7. ASSUME NEW c \in Clients, Disconnect(c)
      PROVE  IInv'
  BY <1>7, DisconnectKeeps
<1>8. Posts \subseteq Reqs /\ Deletes \subseteq Reqs
  BY DEF Reqs
<1>9. QED
  BY <1>1, <1>2, <1>3, <1>4, <1>5, <1>6, <1>7, <1>8 DEF Next, Handler

\* The invariant holds in every behaviour of the handlers.
THEOREM Invariant == Spec => []IInv
BY InvInit, InvStep, PTL DEF Spec

\* A listed listener holds the socket of its key, serves and was not aborted,
\* however the unlocked handlers of POST and DELETE interleave.
THEOREM ListedListenersAreLive == Spec => []ListedIsLive
<1>1. IInv => ListedIsLive
  BY TypeParts DEF IInv, Live, ListedIsLive
<1>2. QED
  BY <1>1, Invariant, PTL

\* A DELETE that answers 204 leaves none of the listeners it matched running, and
\* none of the sessions they had, though another DELETE may have taken some.
THEOREM NoContentMeansClosed == Spec => []OkMeansClosed
<1>1. IInv => OkMeansClosed
  BY DEF IInv, History
<1>2. QED
  BY <1>1, Invariant, PTL
=============================================================================
