---------------------------- MODULE Connections ----------------------------
(***************************************************************************)
(* What two members may do to each other: interests (plans/views.py),      *)
(* blocks (blocks/), wishlists (wishlist/), and chat over HTTP             *)
(* (chat/views.py) and over a WebSocket (chat/consumers.py).               *)
(*                                                                         *)
(* None of these requests runs in a transaction, except the acceptance by  *)
(* a reciprocal interest: a request checks the plan, the block, the        *)
(* interest, one query each, and writes on the strength of what it saw.    *)
(* A step here is one such query or write, and a request may stop for good *)
(* between any two.                                                        *)
(*                                                                         *)
(* A plan limit is not counted here (Quota does that); only whether a      *)
(* member's plan runs, and what the cached row of a request or a socket    *)
(* says of it.                                                             *)
(***************************************************************************)
EXTENDS Naturals, FiniteSets

CONSTANTS
  Users, Workers,
  Mixes            \* bound of the model: what is done together in one behaviour

Pairs == {p \in Users \X Users : p[1] # p[2]}
Couples == {{p[1], p[2]} : p \in Pairs}

VARIABLES
  interest,       \* interest[<<s, r>>]: status of the plans_interest row
  blocked,        \* <<a, b>>: a has blocked b
  wished,         \* <<a, b>>: b is on a's wishlist
  conversations,  \* couples with a chat_conversation row
  unread,         \* <<s, r>>: r has messages of s not marked as read
  subscribed,     \* members whose plan runs
  mix,            \* the kinds of requests made; "plan": plans change, too
  req,            \* req[w]: the request worker w is serving
  sockets,        \* open chat sockets
  free,           \* history: requests that saw a moment without a block
  met,            \* history: requests that saw a moment of connection
  ever,           \* history: couples that were connected once
  crossed,        \* history: couples whose interests were sent at the same time
  stray,          \* history: wishes saved, or not cleared, behind a block
  chatCharges     \* history: chatCharges[c], chats charged for couple c

tables == <<interest, blocked, wished, conversations, unread>>
vars == <<tables, subscribed, mix, req, sockets, free, met, ever, crossed, stray, chatCharges>>

Statuses == {"absent", "pending", "accepted", "rejected", "cancelled"}

\* What is still true of a cached plan row: the table has it, it has not run out.
Snap == SUBSET {"stored", "valid"}

Kinds == {"send", "accept", "reject", "cancel", "start", "post", "read", "connect",
          "say", "block", "toggle"}

ASSUME ConnectionsAssumption == Mixes \subseteq SUBSET (Kinds \cup {"plan"})

Pcs == {"block", "plan", "accepted", "incoming", "reciprocate", "create", "resend",
        "charge", "save", "join", "clear", "wish", "unwish"}

Idle == [pc |-> "idle"]
Request == [pc : Pcs, kind : Kinds, me : Users, peer : Users, snap : Snap]
Socket == [me : Users, peer : Users, snap : Snap]

TypeOK ==
  /\ interest \in [Pairs -> Statuses]
  /\ blocked \subseteq Pairs /\ wished \subseteq Pairs /\ unread \subseteq Pairs
  /\ conversations \subseteq Couples
  /\ subscribed \subseteq Users
  /\ mix \subseteq Kinds \cup {"plan"}
  /\ req \in [Workers -> Request \cup {Idle}]
  /\ sockets \subseteq Socket
  /\ free \subseteq Workers /\ met \subseteq Workers
  /\ ever \subseteq Couples /\ crossed \subseteq Couples
  /\ stray \subseteq Pairs
  /\ chatCharges \in [Couples -> Nat]

----------------------------------------------------------------------------
Out(w) == <<req[w].me, req[w].peer>>
In(w) == <<req[w].peer, req[w].me>>
Couple(w) == {req[w].me, req[w].peer}
At(w, pc) == req[w] # Idle /\ req[w].pc = pc

\* are_blocked
AreBlocked(c) == \E p \in blocked : {p[1], p[2]} = c

\* has_accepted_interest_between
Connected(c) == \E p \in Pairs : {p[1], p[2]} = c /\ interest[p] = "accepted"

\* The members have not met, or were connected before.
Init ==
  /\ \E S \in SUBSET Pairs : interest = [p \in Pairs |-> IF p \in S THEN "accepted" ELSE "absent"]
  /\ blocked = {} /\ wished = {} /\ unread = {}
  /\ conversations \in SUBSET {c \in Couples : Connected(c)}
  /\ subscribed \in SUBSET Users
  /\ mix \in Mixes
  /\ req = [w \in Workers |-> Idle]
  /\ sockets = {}
  /\ free = {} /\ met = {} /\ ever = {c \in Couples : Connected(c)} /\ crossed = {} /\ stray = {}
  /\ chatCharges = [c \in Couples |-> 0]

Go(w, pc) == req' = [req EXCEPT ![w].pc = pc]
Done(w) == req' = [req EXCEPT ![w] = Idle]

\* The next query of a request the block does not stop.
AfterBlock(kind) ==
  CASE kind = "accept" -> "plan"
    [] kind \in {"reject", "say"} -> "save"
    [] kind = "toggle" -> "wish"
    [] OTHER -> "accepted"

\* PlanLimitService.consume_*: nothing when the plan has run out since the check.
Consumes(w) == "valid" \in req[w].snap

\* The update of a row that is gone raises DatabaseError.
RowGone(w) == Consumes(w) /\ "stored" \notin req[w].snap

----------------------------------------------------------------------------
(* The start of a request: the queries before its first check of the pair.   *)

NeedsPlan(kind) == kind \in {"send", "start", "post", "read", "connect"}

\* What a later query of the request depends on: the charge on the whole row, the
\* messages of a socket on its valid_until.
Cached(kind) ==
  CASE kind \in {"send", "start"} -> {"stored", "valid"}
    [] kind = "connect" -> {"valid"}
    [] OTHER -> {}

\* Two members send each other interests at the same time.
Crossing(w, kind, me, peer) ==
  kind = "send" /\ \E v \in Workers \ {w} :
    req[v] # Idle /\ req[v].kind = "send" /\ req[v].me = peer /\ req[v].peer = me

Begin(w, kind, me, peer) ==
  /\ req[w] = Idle /\ me # peer /\ kind \in mix
  /\ NeedsPlan(kind) => me \in subscribed
  /\ kind \in {"post", "read", "connect"} => {me, peer} \in conversations
  /\ kind \in {"accept", "reject"} => interest[<<peer, me>>] # "absent"
  /\ kind = "cancel" => interest[<<me, peer>>] = "pending"
  /\ req' = [req EXCEPT ![w] =
       [pc |-> IF kind \in {"cancel", "block"} THEN "save" ELSE "block",
        kind |-> kind, me |-> me, peer |-> peer,
        snap |-> Cached(kind)]]
  /\ crossed' = IF Crossing(w, kind, me, peer) THEN crossed \cup {{me, peer}} ELSE crossed
  /\ UNCHANGED <<tables, subscribed, sockets, stray, chatCharges>>

\* ChatConsumer.receive: the plan row is the one the socket's user object cached.
BeginSay(w, s) ==
  /\ req[w] = Idle /\ s \in sockets /\ "say" \in mix
  /\ "valid" \in s.snap
  /\ req' = [req EXCEPT ![w] =
       [pc |-> "block", kind |-> "say", me |-> s.me, peer |-> s.peer, snap |-> s.snap]]
  /\ UNCHANGED <<tables, subscribed, sockets, crossed, stray, chatCharges>>

\* Mutant: no request asks for blocks.
IgnoreBlock(w) ==
  /\ At(w, "block")
  /\ Go(w, AfterBlock(req[w].kind))
  /\ UNCHANGED <<tables, subscribed, sockets, crossed, stray, chatCharges>>

CheckBlock(w) ==
  /\ At(w, "block")
  /\ IF AreBlocked(Couple(w)) THEN Done(w) ELSE Go(w, AfterBlock(req[w].kind))
  /\ UNCHANGED <<tables, subscribed, sockets, crossed, stray, chatCharges>>

\* RespondInterestView asks for the plan of an accepting member only, and last.
CheckPlan(w) ==
  /\ At(w, "plan")
  /\ IF req[w].me \in subscribed THEN Go(w, "save") ELSE Done(w)
  /\ UNCHANGED <<tables, subscribed, sockets, crossed, stray, chatCharges>>

\* Mutant: any interest, whatever its status, is enough to chat.
CheckAnyInterest(w) ==
  /\ At(w, "accepted")
  /\ IF req[w].kind = "send"
     THEN IF Connected(Couple(w)) THEN Done(w) ELSE Go(w, "incoming")
     ELSE IF \E p \in {In(w), Out(w)} : interest[p] # "absent" THEN Go(w, "save") ELSE Done(w)
  /\ UNCHANGED <<tables, subscribed, sockets, crossed, stray, chatCharges>>

CheckAccepted(w) ==
  /\ At(w, "accepted")
  /\ CASE req[w].kind = "send" ->
            IF Connected(Couple(w)) THEN Done(w) ELSE Go(w, "incoming")
       [] req[w].kind = "start" ->
            IF Connected(Couple(w)) /\ "valid" \in req[w].snap THEN Go(w, "save") ELSE Done(w)
       [] OTHER ->
            IF Connected(Couple(w)) THEN Go(w, "save") ELSE Done(w)
  /\ UNCHANGED <<tables, subscribed, sockets, crossed, stray, chatCharges>>

----------------------------------------------------------------------------
(* SendInterestView.                                                         *)

\* Mutant: an interest of the other side is not looked for.
SkipIncoming(w) ==
  /\ At(w, "incoming")
  /\ Go(w, "create")
  /\ UNCHANGED <<tables, subscribed, sockets, crossed, stray, chatCharges>>

FindIncoming(w) ==
  /\ At(w, "incoming")
  /\ Go(w, IF interest[In(w)] = "pending" THEN "reciprocate" ELSE "create")
  /\ UNCHANGED <<tables, subscribed, sockets, crossed, stray, chatCharges>>

\* One transaction: the other side's interest becomes accepted and the sender is
\* charged, or neither.  The status is not read again.
Reciprocate(w) ==
  /\ At(w, "reciprocate")
  /\ Done(w)
  /\ interest' = IF RowGone(w) THEN interest ELSE [interest EXCEPT ![In(w)] = "accepted"]
  /\ UNCHANGED <<blocked, wished, conversations, unread, subscribed, sockets, crossed, stray,
                 chatCharges>>

\* get_or_create
CreateInterest(w) ==
  /\ At(w, "create")
  /\ CASE interest[Out(w)] = "absent" ->
            /\ interest' = [interest EXCEPT ![Out(w)] = "pending"] /\ Go(w, "charge")
       [] interest[Out(w)] \in {"cancelled", "rejected"} ->
            Go(w, "resend") /\ UNCHANGED interest
       [] OTHER -> Done(w) /\ UNCHANGED interest
  /\ UNCHANGED <<blocked, wished, conversations, unread, subscribed, sockets, crossed, stray,
                 chatCharges>>

Resend(w) ==
  /\ At(w, "resend")
  /\ interest' = [interest EXCEPT ![Out(w)] = "pending"]
  /\ Go(w, "charge")
  /\ UNCHANGED <<blocked, wished, conversations, unread, subscribed, sockets, crossed, stray,
                 chatCharges>>

\* consume_interest or consume_chat after the row was saved; an error leaves the row.
Charge(w) ==
  /\ At(w, "charge")
  /\ Done(w)
  /\ chatCharges' = IF req[w].kind = "start" /\ Consumes(w) /\ ~ RowGone(w)
                    THEN [chatCharges EXCEPT ![Couple(w)] = @ + 1] ELSE chatCharges
  /\ UNCHANGED <<tables, subscribed, sockets, crossed, stray>>

----------------------------------------------------------------------------
(* RespondInterestView and CancelInterestView.                               *)

\* The receiver's answer is saved whatever the status has become.
Respond(w) ==
  /\ At(w, "save") /\ req[w].kind \in {"accept", "reject"}
  /\ interest' = [interest EXCEPT ![In(w)] =
       IF req[w].kind = "accept" THEN "accepted" ELSE "rejected"]
  /\ Done(w)
  /\ UNCHANGED <<blocked, wished, conversations, unread, subscribed, sockets, crossed, stray,
                 chatCharges>>

\* The row was pending when Begin read it.
Cancel(w) ==
  /\ At(w, "save") /\ req[w].kind = "cancel"
  /\ interest' = [interest EXCEPT ![Out(w)] = "cancelled"]
  /\ Done(w)
  /\ UNCHANGED <<blocked, wished, conversations, unread, subscribed, sockets, crossed, stray,
                 chatCharges>>

----------------------------------------------------------------------------
(* Chat.                                                                     *)

\* Mutant: the chat is charged whether or not it is new.
StartAlwaysCharges(w) ==
  /\ At(w, "save") /\ req[w].kind = "start"
  /\ conversations' = conversations \cup {Couple(w)}
  /\ Go(w, "charge")
  /\ UNCHANGED <<interest, blocked, wished, unread, subscribed, sockets, crossed, stray,
                 chatCharges>>

\* ChatStartView: get_or_create, and a charge if the row is new.
StartChat(w) ==
  /\ At(w, "save") /\ req[w].kind = "start"
  /\ conversations' = conversations \cup {Couple(w)}
  /\ IF Couple(w) \in conversations THEN Done(w) ELSE Go(w, "charge")
  /\ UNCHANGED <<interest, blocked, wished, unread, subscribed, sockets, crossed, stray,
                 chatCharges>>

\* ChatMessagesView.post and ChatConsumer.receive
SaveMessage(w) ==
  /\ At(w, "save") /\ req[w].kind \in {"post", "say"}
  /\ unread' = unread \cup {Out(w)}
  /\ Done(w)
  /\ UNCHANGED <<interest, blocked, wished, conversations, subscribed, sockets, crossed, stray,
                 chatCharges>>

\* ChatMessagesView.get and ChatConsumer.connect: the peer's messages become read.
MarkRead(w) ==
  /\ At(w, "save") /\ req[w].kind \in {"read", "connect"}
  /\ unread' = unread \ {In(w)}
  /\ IF req[w].kind = "connect" THEN Go(w, "join") ELSE Done(w)
  /\ UNCHANGED <<interest, blocked, wished, conversations, subscribed, sockets, crossed, stray,
                 chatCharges>>

\* The socket joins the conversation's group; it keeps the cached plan row.
Join(w) ==
  /\ At(w, "join")
  /\ sockets' = sockets \cup {[me |-> req[w].me, peer |-> req[w].peer, snap |-> req[w].snap]}
  /\ Done(w)
  /\ UNCHANGED <<tables, subscribed, crossed, stray, chatCharges>>

Disconnect(s) ==
  /\ s \in sockets
  /\ sockets' = sockets \ {s}
  /\ UNCHANGED <<tables, subscribed, req, crossed, stray, chatCharges>>

----------------------------------------------------------------------------
(* Blocks and wishlists.                                                     *)

\* POST /blocks/: the row first, the wishes of both sides in a second query.
Block(w) ==
  /\ At(w, "save") /\ req[w].kind = "block"
  /\ blocked' = blocked \cup {Out(w)}
  /\ Go(w, "clear")
  /\ UNCHANGED <<interest, wished, conversations, unread, subscribed, sockets, crossed, stray,
                 chatCharges>>

\* Mutant: only the blocker's own wish is deleted.
ClearOwnWish(w) ==
  /\ At(w, "clear")
  /\ wished' = wished \ {Out(w)}
  /\ stray' = stray \ {Out(w), In(w)}
  /\ Done(w)
  /\ UNCHANGED <<interest, blocked, conversations, unread, subscribed, sockets, crossed,
                 chatCharges>>

ClearWishes(w) ==
  /\ At(w, "clear")
  /\ wished' = wished \ {Out(w), In(w)}
  /\ stray' = stray \ {Out(w), In(w)}
  /\ Done(w)
  /\ UNCHANGED <<interest, blocked, conversations, unread, subscribed, sockets, crossed,
                 chatCharges>>

\* DELETE /blocks/
Unblock(a, b) ==
  /\ <<a, b>> \in blocked
  /\ blocked' = blocked \ {<<a, b>>}
  /\ UNCHANGED <<interest, wished, conversations, unread, subscribed, req, sockets, crossed, stray,
                 chatCharges>>

\* WishlistToggleView
LookUpWish(w) ==
  /\ At(w, "wish")
  /\ Go(w, IF Out(w) \in wished THEN "unwish" ELSE "save")
  /\ UNCHANGED <<tables, subscribed, sockets, crossed, stray, chatCharges>>

DeleteWish(w) ==
  /\ At(w, "unwish")
  /\ wished' = wished \ {Out(w)} /\ stray' = stray \ {Out(w)}
  /\ Done(w)
  /\ UNCHANGED <<interest, blocked, conversations, unread, subscribed, sockets, crossed,
                 chatCharges>>

\* A second row of the pair breaks the unique constraint and is ignored.
AddWish(w) ==
  /\ At(w, "save") /\ req[w].kind = "toggle"
  /\ wished' = wished \cup {Out(w)}
  /\ stray' = IF AreBlocked(Couple(w)) THEN stray \cup {Out(w)} ELSE stray
  /\ Done(w)
  /\ UNCHANGED <<interest, blocked, conversations, unread, subscribed, sockets, crossed,
                 chatCharges>>

\* WishlistRemoveView asks for no block.
RemoveWish(p) ==
  /\ "toggle" \in mix /\ p \in wished
  /\ wished' = wished \ {p} /\ stray' = stray \ {p}
  /\ UNCHANGED <<interest, blocked, conversations, unread, subscribed, req, sockets, crossed,
                 chatCharges>>

----------------------------------------------------------------------------
(* The plans of the members, and crashes.                                    *)

\* What becomes of the cached rows of u.
Recache(u, lost) ==
  /\ req' = [w \in Workers |->
       IF req[w] # Idle /\ req[w].me = u THEN [req[w] EXCEPT !.snap = @ \ {lost}] ELSE req[w]]
  /\ sockets' = {IF s.me = u THEN [s EXCEPT !.snap = @ \ {lost}] ELSE s : s \in sockets}
  /\ UNCHANGED <<tables, crossed, stray, chatCharges>>

BuyPlan(u) ==
  /\ "plan" \in mix
  /\ subscribed' = subscribed \cup {u}
  /\ UNCHANGED <<tables, req, sockets, crossed, stray, chatCharges>>

\* DELETE /my/plan/ takes the row away, the clock what it is worth.
LosePlan(u, lost) ==
  /\ "plan" \in mix /\ u \in subscribed
  /\ subscribed' = subscribed \ {u}
  /\ Recache(u, lost)

\* The worker dies; a block that has not cleared the wishes never does.
Crash(w) ==
  /\ req[w] # Idle
  /\ stray' = IF At(w, "clear") THEN stray \cup (wished \cap {Out(w), In(w)}) ELSE stray
  /\ Done(w)
  /\ UNCHANGED <<tables, subscribed, sockets, crossed, chatCharges>>

----------------------------------------------------------------------------
\* What the requests open after the step have seen.
Observe ==
  /\ free' = {w \in Workers : req'[w] # Idle /\ (w \in free \/ ~ AreBlocked(Couple(w))')}
  /\ met' = {w \in Workers : req'[w] # Idle /\ (w \in met \/ Connected(Couple(w))')}
  /\ mix' = mix
  /\ ever' = ever \cup {c \in Couples : Connected(c)'}

Step(w) ==
  \/ CheckBlock(w) \/ CheckPlan(w) \/ CheckAccepted(w)
  \/ FindIncoming(w) \/ Reciprocate(w) \/ CreateInterest(w) \/ Resend(w) \/ Charge(w)
  \/ Respond(w) \/ Cancel(w)
  \/ StartChat(w) \/ SaveMessage(w) \/ MarkRead(w) \/ Join(w)
  \/ Block(w) \/ ClearWishes(w) \/ LookUpWish(w) \/ DeleteWish(w) \/ AddWish(w)

Next ==
  /\ \/ \E w \in Workers, kind \in mix \ {"say", "plan"}, me, peer \in Users : Begin(w, kind, me, peer)
     \/ \E w \in Workers, s \in sockets : BeginSay(w, s)
     \/ \E w \in Workers : Step(w) \/ Crash(w)
     \/ \E s \in sockets : Disconnect(s)
     \/ \E a, b \in Users : Unblock(a, b)
     \/ \E p \in Pairs : RemoveWish(p)
     \/ \E u \in Users : BuyPlan(u) \/ LosePlan(u, "stored") \/ LosePlan(u, "valid")
  /\ Observe

Spec == Init /\ [][Next]_vars

----------------------------------------------------------------------------
(* Properties.                                                               *)

\* Two interests wait for each other only if they were sent at the same time: a
\* later one finds the earlier (SendInterestView looks for the incoming interest
\* before it creates its own).
BothPendingOnlyIfCrossed ==
  \A p \in Pairs :
    interest[p] = "pending" /\ interest[<<p[2], p[1]>>] = "pending"
      => {p[1], p[2]} \in crossed

\* A block leaves no wish between the two, unless a toggle that had passed the check
\* saved one behind it, or the block died before it cleared the wishes.
BlockClearsWishes ==
  \A p \in wished :
    AreBlocked({p[1], p[2]}) =>
      \/ p \in stray
      \/ \E w \in Workers : At(w, "clear") /\ Couple(w) = {p[1], p[2]}

\* "Only pending interests can be cancelled." (plans/views.py:686): an accepted interest
\* is not cancelled.
CancelOnlyPending ==
  [][\A p \in Pairs : interest[p] = "accepted" => interest'[p] # "cancelled"]_vars

\* A couple's chat is charged at most once, to whoever started it.
ChatChargedOnce ==
  \A c \in Couples : chatCharges[c] <= IF c \in conversations THEN 1 ELSE 0

\* The step is taken by a request of couple c that is in S.
ServedBy(c, S) == \E w \in S : req[w] # Idle /\ Couple(w) = c /\ req'[w] # req[w]

\* A request that ran behind a block from beginning to end sends and accepts no
\* interest, saves no wish, starts no chat and says nothing.
BlockHolds ==
  [][\A p \in Pairs :
       \/ interest'[p] # interest[p] /\ interest'[p] \in {"pending", "accepted"}
       \/ p \in wished' \ wished
       \/ p \in unread' \ unread
       \/ {p[1], p[2]} \in conversations' \ conversations
       => ServedBy({p[1], p[2]}, free)]_vars

\* A chat starts, and messages are sent over HTTP and read, only in requests during
\* which the two were connected by an accepted interest; over a socket, messages are
\* sent only if they were connected once.
ChatNeedsConsent ==
  [][\A p \in Pairs :
       \/ p \in (unread' \ unread) \cup (unread \ unread')
       \/ {p[1], p[2]} \in conversations' \ conversations
       => ServedBy({p[1], p[2]}, met \cup
            {w \in Workers : req[w] # Idle /\ req[w].kind = "say" /\ Couple(w) \in ever})]_vars
=============================================================================
