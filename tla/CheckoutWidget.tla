--------------------------- MODULE CheckoutWidget ---------------------------
(***************************************************************************)
(* The checkout widget in its frame (packages/sdk/src/widget): attempts to *)
(* pay, the message each sends to the page around it and waits five        *)
(* seconds for an answer to, and the page's side of it, initWidgetHost.    *)
(*                                                                         *)
(* Messages between two windows keep their order.  initWidgetHost itself   *)
(* does nothing with a request to pay: that the page has a listener of its *)
(* own, which pays with a wallet and answers by the id, is how the widget  *)
(* means to be used, and external.  Any message with the id of a request   *)
(* ends the attempt, whatever its type: a page may answer with another     *)
(* one, and a widget that is in no frame posts to its own window and hears *)
(* its own request.                                                        *)
(***************************************************************************)
EXTENDS Naturals, Sequences

CONSTANTS
  MaxAttempts, MaxRenders, MaxSends \* bounds

VARIABLES
  attempt,    \* by the number n of its request msg_n: [state, button]
  render,     \* which button is on the screen
  disabled,   \* of each button, whether initiatePayment disabled it
  toPage, toWidget, \* messages on the way
  wallet,     \* external: of each request, what the page's wallet made of it
  reported,   \* what initWidgetHost called onSuccess and onError with, in order
  sends       \* messages of the page that are no answer to a request

vars == <<attempt, render, disabled, toPage, toWidget, wallet, reported, sends>>

Started == DOMAIN attempt
Waiting == {n \in Started : attempt[n].state = "waiting"}

\* A post of the widget: of attempt n, or of none for a cancel.  It comes again
\* when it is the error of a callback that threw, behind the attempt's outcome.
Post(type, n, again) == [type |-> type, of |-> n, again |-> again]

Init ==
  /\ attempt = <<>>
  /\ render = 1
  /\ disabled = [b \in 1 .. MaxRenders + 1 |-> FALSE]
  /\ toPage = <<>>
  /\ toWidget = <<>>
  /\ wallet = <<>>
  /\ reported = <<>>
  /\ sends = 0

-----------------------------------------------------------------------------
(* The widget.                                                             *)

\* How the attempts ns end: initiatePayment's finally enables their buttons.
Settled(ns, state) ==
  [k \in Started |-> IF k \in ns THEN [attempt[k] EXCEPT !.state = state] ELSE attempt[k]]
Enabled(ns, buttons) ==
  [b \in DOMAIN buttons |-> buttons[b] /\ \A k \in ns : attempt[k].button # b]

\* initiatePayment: the button of this render is disabled until the end, and
\* the request is given a number and a handler.  The attempt, if any, that the
\* message asking for it dropped comes to its end after this.
InitiatePayment(dropped) ==
  /\ Len(attempt) < MaxAttempts
  /\ LET n == Len(attempt) + 1 IN
       /\ attempt' = Append(Settled(dropped, "dropped"), [state |-> "waiting", button |-> render])
       /\ toPage' = Append(toPage, Post("pay", n, FALSE))
  /\ disabled' = Enabled(dropped, [disabled EXCEPT ![render] = TRUE])
  /\ UNCHANGED <<render, wallet, reported, sends>>

Click == ~disabled[render] /\ InitiatePayment({}) /\ UNCHANGED toWidget

\* pay(), which the page may call whatever the button says.
Pay == InitiatePayment({}) /\ UNCHANGED toWidget

\* render(): an attribute or the config changed, and the button is a new one.
Render ==
  /\ render <= MaxRenders
  /\ render' = render + 1
  /\ UNCHANGED <<attempt, disabled, toPage, toWidget, wallet, reported, sends>>

Ends(ns, state) ==
  /\ attempt' = Settled(ns, state)
  /\ disabled' = Enabled(ns, disabled)

\* Five seconds without an answer: the handler is dropped, the catch reports.
MessageTimeout(n) ==
  /\ n \in Waiting
  /\ Ends({n}, "timed out")
  /\ toPage' = Append(toPage, Post("error", n, FALSE))
  /\ UNCHANGED <<render, toWidget, wallet, reported, sends>>

\* Mutant of HandlerOf: whoever waits takes the answer.
HandlerOfOldest(message) == IF Waiting = {} THEN {} ELSE {CHOOSE n \in Waiting : \A m \in Waiting : n <= m}

\* The handler a message is for: the one with its id, if it still waits.
HandlerOf(message) == {n \in Waiting : n = message.of}

Takes(types) ==
  /\ toWidget # <<>>
  /\ Head(toWidget).type \in types
  /\ toWidget' = Tail(toWidget)

\* An answer: the outcome is posted and the config's onSuccess or onError
\* called.  Where that throws, the catch posts an error behind the outcome.
Concludes(n, type) ==
  \/ /\ Ends({n}, "answered")
     /\ toPage' = Append(toPage, Post(type, n, FALSE))
  \/ /\ Ends({n}, "thrown")
     /\ toPage' = Append(Append(toPage, Post(type, n, FALSE)), Post("error", n, TRUE))

HandleAnswer ==
  /\ Takes({"success", "error"})
  /\ \/ \E n \in HandlerOf(Head(toWidget)) : Concludes(n, Head(toWidget).type)
     \/ HandlerOf(Head(toWidget)) = {} /\ UNCHANGED <<attempt, disabled, toPage>>
  /\ UNCHANGED <<render, wallet, reported, sends>>

\* A message of another type resolves the handler of its id as well, and that
\* attempt ends with nothing posted, once the message itself is seen to.
HandlePay == Takes({"pay"}) /\ InitiatePayment(HandlerOf(Head(toWidget)))

HandleConfig ==
  /\ Takes({"config"})
  /\ render <= MaxRenders
  /\ render' = render + 1
  /\ Ends(HandlerOf(Head(toWidget)), "dropped")
  /\ UNCHANGED <<toPage, wallet, reported, sends>>

\* A cancel is answered with an error of no attempt and stops none but the one
\* whose id it has.
HandleCancel ==
  /\ Takes({"cancel"})
  /\ Ends(HandlerOf(Head(toWidget)), "dropped")
  /\ toPage' = Append(toPage, Post("error", 0, FALSE))
  /\ UNCHANGED <<render, wallet, reported, sends>>

-----------------------------------------------------------------------------
(* The page.                                                               *)

\* handleMessage of initWidgetHost, and the page's own listener.
PageReceives ==
  /\ toPage # <<>>
  /\ toPage' = Tail(toPage)
  /\ IF Head(toPage).type = "pay"
     THEN wallet' = Append(wallet, [of |-> Head(toPage).of, state |-> "asked"]) /\ UNCHANGED reported
     ELSE reported' = Append(reported, Head(toPage)) /\ UNCHANGED wallet
  /\ UNCHANGED <<attempt, render, disabled, toWidget, sends>>

\* External: the customer signs and pays, or does not, and the page answers.
WalletAnswers(i, state) ==
  /\ wallet[i].state = "asked"
  /\ wallet' = [wallet EXCEPT ![i].state = state]
  /\ toWidget' = Append(toWidget, [type |-> IF state = "paid" THEN "success" ELSE "error",
                                   of |-> wallet[i].of])
  /\ UNCHANGED <<attempt, render, disabled, toPage, reported, sends>>

\* What the page asks of the widget.
Requests == {"pay", "cancel", "config"}
Sends(type, of) ==
  /\ sends < MaxSends
  /\ sends' = sends + 1
  /\ toWidget' = Append(toWidget, [type |-> type, of |-> of])
  /\ UNCHANGED <<attempt, render, disabled, toPage, wallet, reported>>

\* sendToWidget, under an id of its own.  The widget never answers under the id
\* it was given, so the promise always ends in its timer.
SendToWidget(type) == Sends(type, 0)

\* External: a request comes back as one, under the id it was given.
SendsBack(i, type) == Sends(type, wallet[i].of)

Next ==
  \/ Click \/ Pay \/ Render
  \/ HandleAnswer \/ HandlePay \/ HandleConfig \/ HandleCancel \/ PageReceives
  \/ \E n \in Started : MessageTimeout(n)
  \/ \E i \in DOMAIN wallet, state \in {"paid", "refused"} : WalletAnswers(i, state)
  \/ \E type \in Requests : SendToWidget(type)
  \/ \E i \in DOMAIN wallet, type \in Requests : SendsBack(i, type)

\* Timers fire and messages arrive; nobody need click, pay or answer.
Fairness ==
  /\ \A n \in 1 .. MaxAttempts : WF_vars(n \in Started /\ MessageTimeout(n))
  /\ WF_vars(PageReceives) /\ WF_vars(HandleAnswer)

Spec == Init /\ [][Next]_vars /\ Fairness

-----------------------------------------------------------------------------
(* Properties.                                                             *)

\* The page hears of each attempt once: of a success only when the wallet paid
\* that very request, of an error only when it refused or nobody had answered
\* in time, whatever attempts overlap and answers are late.  A second word, and
\* that an error, follows only where the callback of the config threw.
OutcomesAreTrue ==
  /\ \A i, j \in DOMAIN reported :
       reported[i].of = reported[j].of /\ reported[i].again = reported[j].again
         /\ reported[i].of # 0 => i = j
  /\ \A i \in DOMAIN reported :
       reported[i].type = "success" =>
         \E k \in DOMAIN wallet : wallet[k].of = reported[i].of /\ wallet[k].state = "paid"
  /\ \A i \in DOMAIN reported :
       reported[i].type = "error" /\ ~reported[i].again /\ reported[i].of # 0
         /\ attempt[reported[i].of].state # "timed out" =>
              \E k \in DOMAIN wallet : wallet[k].of = reported[i].of /\ wallet[k].state = "refused"
  /\ \A i \in DOMAIN reported :
       reported[i].again =>
         /\ reported[i].type = "error" /\ attempt[reported[i].of].state = "thrown"
         /\ \E j \in 1 .. i - 1 : reported[j].of = reported[i].of /\ ~reported[j].again

\* Every attempt comes to an end, also when nobody answers, and the page is told
\* of it unless it was dropped.
Over(n) == \/ \E i \in DOMAIN reported : reported[i].of = n
           \/ n \in Started /\ attempt[n].state = "dropped"
AttemptsEnd == \A n \in 1 .. MaxAttempts : n \in Started ~> Over(n)

-----------------------------------------------------------------------------
(* The inductive invariant behind OutcomesAreTrue.                          *)

(* The members of a channel, and what may be in each.                       *)
Members(s) == {s[i] : i \in DOMAIN s}
Posts == [type : {"pay", "success", "error"}, of : Nat, again : BOOLEAN]
Ended == {"timed out", "answered", "thrown", "dropped"}
Attempts == [state : {"waiting"} \cup Ended, button : Nat]
Asks == [of : Nat, state : {"asked", "paid", "refused"}]
ToWidget == [type : Requests \cup {"success", "error"}, of : Nat]
WShape ==
  /\ attempt \in Seq(Attempts) /\ render \in Nat /\ wallet \in Seq(Asks)
  /\ toPage \in Seq(Posts) /\ reported \in Seq(Posts) /\ toWidget \in Seq(ToWidget)

(* What became of a request in the wallet.                                  *)
Made(asks, n, state) == \E k \in DOMAIN asks : asks[k].of = n /\ asks[k].state = state

(* An answer on its way is what the wallet made of the request.             *)
AnswersTrue ==
  \A m \in Members(toWidget) : /\ m.type = "success" => Made(wallet, m.of, "paid")
                               /\ m.type = "error" => Made(wallet, m.of, "refused")

(* The outcomes in a channel, and none of them twice.                       *)
Outcomes(s) == {m \in Members(s) : m.type # "pay"}
Same(m, p) == m.of = p.of /\ m.again = p.again /\ m.of # 0
Once(s) == \A i, j \in DOMAIN s : s[i].type # "pay" /\ s[j].type # "pay" /\ Same(s[i], s[j]) => i = j

(* An outcome is of an attempt that is over, and is what the wallet made of *)
(* it, but for a timeout; an error comes again only if a callback threw.    *)
Fair(m, tries, asks) ==
  /\ m.of # 0 => m.of \in DOMAIN tries /\ tries[m.of].state # "waiting"
  /\ m.type = "success" => Made(asks, m.of, "paid")
  /\ m.type = "error" /\ ~m.again /\ m.of # 0 /\ tries[m.of].state # "timed out" =>
       Made(asks, m.of, "refused")
  /\ m.again => m.type = "error" /\ m.of # 0 /\ tries[m.of].state = "thrown"

(* The outcome an error came behind.                                        *)
Leads(p, m) == p.type # "pay" /\ p.of = m.of /\ ~p.again
Behind(s) == \A i \in DOMAIN s : s[i].again => \E j \in 1 .. i - 1 : Leads(s[j], s[i])
BehindBoth(heard, page) ==
  \A i \in DOMAIN page : page[i].again =>
    (\E j \in 1 .. i - 1 : Leads(page[j], page[i])) \/ \E p \in Members(heard) : Leads(p, page[i])

(* What the page heard, and what is on its way to it.                       *)
Heard(heard, page, tries, asks) ==
  /\ \A m \in Members(heard) : m.type # "pay" /\ Fair(m, tries, asks)
  /\ \A m \in Outcomes(page) : Fair(m, tries, asks)
  /\ \A m \in Members(heard), p \in Outcomes(page) : ~Same(m, p)
  /\ Once(heard) /\ Once(page)
  /\ Behind(heard) /\ BehindBoth(heard, page)

WidgetInv == WShape /\ AnswersTrue /\ Heard(reported, toPage, attempt, wallet)
=============================================================================
