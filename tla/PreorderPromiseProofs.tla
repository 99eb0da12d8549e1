----------------------- MODULE PreorderPromiseProofs -----------------------
(***************************************************************************)
(* For every set of quotes, dates and attempts: money has units, units     *)
(* given back have no money, and the promise of both is the promise of     *)
(* capacity and the promise of each payment on the same rows.              *)
(***************************************************************************)
EXTENDS PreorderPromise, TLAPS

\* Payment has a part in an order only while the order has its units, and it is
\* over when they are given back; Square holds money, and the customer was told
\* that the order stands, only while capacity knows.
Owned ==
    /\ sold \subseteq Quotes
    /\ payment = [q \in Quotes |-> payment[q]]
    /\ \A q \in Quotes :
          /\ q \notin sold => payment[q] = NoPayment \/ payment[q].stage = "expired"
          /\ q \in sold => payment[q].stage # "expired"
          /\ payment[q].money # {} \/ payment[q].confirmed => payment[q].stage = "exposed"

-----------------------------------------------------------------------------
(* One payment *)

\* What a step of one payment does to its stage, and that money and
\* confirmation stay with an exposed order.
LEMMA PaymentMoves ==
    ASSUME NEW q \in Quotes, Payment(q)!Next,
           payment[q].money # {} \/ payment[q].confirmed => payment[q].stage = "exposed"
    PROVE  /\ payment'[q].money # {} \/ payment'[q].confirmed =>
                  payment'[q].stage = "exposed"
           /\ payment[q].stage # "expired" /\ payment'[q].stage = "expired" =>
                  Payment(q)!Expire
<1>1. CASE Payment(q)!Expose BY <1>1 DEF Payment!Expose
<1>2. CASE Payment(q)!Settle BY <1>2 DEF Payment!Settle
<1>3. CASE Payment(q)!Return BY <1>3 DEF Payment!Return
<1>4. CASE Payment(q)!Confirm BY <1>4 DEF Payment!Confirm
<1>5. CASE Payment(q)!Withdraw BY <1>5 DEF Payment!Withdraw
<1>6. CASE Payment(q)!Lapse BY <1>6 DEF Payment!Lapse
<1>7. CASE Payment(q)!Expire BY <1>7 DEF Payment!Expire
<1>8. CASE \E i \in Attempts : Payment(q)!Take(i) BY <1>8 DEF Payment!Take
<1> QED BY <1>1, <1>2, <1>3, <1>4, <1>5, <1>6, <1>7, <1>8 DEF Payment!Next

-----------------------------------------------------------------------------
(* Money has units *)

\* A command on quotes, holds or orders: an order gains units only with a new
\* payment.
LEMMA ServeOwned ==
    ASSUME Owned, Serve
    PROVE  Owned'
<1>1. payment' = payment BY DEF Serve
<1>2. ASSUME NEW q \in Quotes
      PROVE  \/ q \in sold' <=> q \in sold
             \/ q \notin sold /\ q \in sold' /\ payment[q] = NoPayment
    BY DEF Serve, Capacity!Republish, Capacity!Free, Capacity!Fill, Capacity!Hold,
           Capacity!Sell, Capacity!Convert
<1>3. NoPayment.stage = "unpaid" BY DEF NoPayment
<1>4. sold' \subseteq Quotes
    BY DEF Owned, Serve, Capacity!Republish, Capacity!Free, Capacity!Fill,
           Capacity!Hold, Capacity!Sell, Capacity!Convert
<1> QED BY <1>1, <1>2, <1>3, <1>4 DEF Owned

\* A payment moves: its order has units, and keeps them.
LEMMA PayOwned ==
    ASSUME Owned, NEW q \in Quotes, Pay(q)
    PROVE  Owned'
<1>1. /\ q \in sold /\ Payment(q)!Next /\ ~Payment(q)!Expire
      /\ payment' = [payment EXCEPT ![q] = payment'[q]] /\ sold' = sold
    BY DEF Pay
<1>2. payment' = [h \in Quotes |-> payment'[h]] BY <1>1 DEF Owned
<1>3. \A h \in Quotes \ {q} : payment'[h] = payment[h] BY <1>1 DEF Owned
<1>4. payment'[q].stage # "expired" BY <1>1, PaymentMoves DEF Owned
<1>5. payment'[q].money # {} \/ payment'[q].confirmed => payment'[q].stage = "exposed"
    BY <1>1, PaymentMoves DEF Owned
<1> QED BY <1>1, <1>2, <1>3, <1>4, <1>5 DEF Owned

\* Orders lose their units and their payments end.
LEMMA GiveUpOwned ==
    ASSUME Owned, NEW T \in SUBSET sold, GiveUp(T)
    PROVE  Owned'
<1>1. /\ sold' = sold \ T
      /\ payment' = [q \in Quotes |-> IF q \in T THEN payment'[q] ELSE payment[q]]
      /\ \A q \in T : Payment(q)!Expire
    BY DEF GiveUp, Capacity!Drop
<1>2. \A q \in Quotes \ T : payment'[q] = payment[q] BY <1>1
<1>3. ASSUME NEW q \in T \cap Quotes
      PROVE  /\ payment'[q].stage = "expired"
             /\ ~(payment'[q].money # {} \/ payment'[q].confirmed)
    BY <1>1 DEF Owned, Payment!Expire
<1>4. payment' = [q \in Quotes |-> payment'[q]] BY <1>1
<1> QED BY <1>1, <1>2, <1>3, <1>4 DEF Owned

LEMMA OwnedStep == Owned /\ [Next]_jvars => Owned'
<1> SUFFICES ASSUME Owned, [Next]_jvars
             PROVE  Owned'
    OBVIOUS
<1>1. CASE UNCHANGED jvars BY <1>1 DEF jvars, Owned
<1> QED BY <1>1, ServeOwned, PayOwned, GiveUpOwned DEF Next

LEMMA OwnedInductive == Spec => []Owned
<1>1. Init => Owned
    BY DEF Init, Owned, NoPayment, Capacity!Init
<1> QED BY <1>1, OwnedStep, PTL DEF Spec

\* Capacity and payment together serve the customer: an order Square holds money
\* for, or that was confirmed, has its units, and units given back are free of
\* any payment.
THEOREM MoneyHasUnits == Spec => []CustomerIsServed
<1>1. Owned => CustomerIsServed
    <2> SUFFICES ASSUME Owned, NEW q \in Quotes
                 PROVE  /\ payment[q].money # {} \/ payment[q].confirmed => q \in sold
                        /\ payment[q].stage = "expired" => q \notin sold
        BY DEF CustomerIsServed
    <2>1. NoPayment.stage = "unpaid" BY DEF NoPayment
    <2>2. q \notin sold => payment[q].stage # "exposed" BY <2>1 DEF Owned
    <2>3. payment[q].money # {} \/ payment[q].confirmed => payment[q].stage = "exposed"
        BY DEF Owned
    <2> QED BY <2>2, <2>3 DEF Owned
<1> QED BY <1>1, OwnedInductive, PTL

\* No command, and no payment, brings an order back.
THEOREM UnitsGoForGood == Spec => GivenUpForGood
<1>1. Owned /\ Owned' /\ [Next]_jvars =>
          [\A q \in Quotes : payment[q].stage = "expired" =>
               /\ payment'[q].stage = "expired" /\ q \notin sold'
               /\ payment'[q].money = {} /\ ~payment'[q].confirmed]_jvars
    <2> SUFFICES ASSUME Owned, Owned', Next,
                        NEW q \in Quotes, payment[q].stage = "expired"
                 PROVE  /\ payment'[q].stage = "expired" /\ q \notin sold'
                        /\ payment'[q].money = {} /\ ~payment'[q].confirmed
        OBVIOUS
    <2>1. q \notin sold BY DEF Owned
    <2>2. payment'[q] = payment[q]
        <3>1. CASE Serve BY <3>1 DEF Serve
        <3>2. ASSUME NEW h \in Quotes, Pay(h)
              PROVE  payment'[q] = payment[q]
            BY <2>1, <3>2 DEF Pay, Owned
        <3>3. ASSUME NEW T \in SUBSET sold, GiveUp(T)
              PROVE  payment'[q] = payment[q]
            BY <2>1, <3>3 DEF GiveUp
        <3> QED BY <3>1, <3>2, <3>3 DEF Next
    <2>3. payment'[q].stage = "expired" BY <2>2
    <2>4. q \notin sold' BY <2>3 DEF Owned
    <2>5. ~(payment'[q].money # {} \/ payment'[q].confirmed) BY <2>3 DEF Owned
    <2> QED BY <2>3, <2>4, <2>5
<1> QED BY <1>1, OwnedInductive, PTL DEF Spec, GivenUpForGood

-----------------------------------------------------------------------------
(* The joint promise is the promise of its parts *)

\* What capacity sees of an order is exposed when its payment is.
LEMMA ExposedMoves ==
    ASSUME Owned, NEW q \in Quotes, Pay(q)
    PROVE  Capacity!Next \/ UNCHANGED Capacity!pvars
<1>1. /\ q \in sold /\ Payment(q)!Next /\ ~Payment(q)!Expire
      /\ payment' = [payment EXCEPT ![q] = payment'[q]]
      /\ offer' = offer /\ cart' = cart /\ held' = held /\ sold' = sold
    BY DEF Pay
<1>2. \A h \in Quotes \ {q} : payment'[h] = payment[h] BY <1>1 DEF Owned
<1>3. CASE Payment(q)!Expose
    <2>1. payment'[q].stage = "exposed" BY <1>3 DEF Payment!Expose
    <2>2. Exposed' = Exposed \cup {q} BY <1>2, <2>1 DEF Exposed
    <2>3. Capacity!Expose(q) BY <1>1, <2>2 DEF Capacity!Expose
    <2> QED BY <2>3 DEF Capacity!Next
<1>4. CASE Payment(q)!Settle
    <2>1. payment'[q].stage = "unpaid" BY <1>4 DEF Payment!Settle
    <2>2. Exposed' = Exposed \ {q} BY <1>2, <2>1 DEF Exposed
    <2>3. Capacity!Settle(q) BY <1>1, <2>2 DEF Capacity!Settle
    <2> QED BY <2>3 DEF Capacity!Next
<1>5. CASE payment'[q].stage = payment[q].stage
    <2>1. Exposed' = Exposed BY <1>2, <1>5 DEF Exposed
    <2> QED BY <1>1, <2>1 DEF Capacity!pvars
<1>6. \/ Payment(q)!Expose \/ Payment(q)!Settle
      \/ payment'[q].stage = payment[q].stage
    BY <1>1 DEF Payment!Next, Payment!Return, Payment!Confirm, Payment!Withdraw,
                Payment!Lapse, Payment!Take
<1> QED BY <1>3, <1>4, <1>5, <1>6

\* With payments that move on their own, pickup capacity still keeps its promise:
\* what the job reads of an order is what its payment says.
THEOREM TogetherIsPickupPromise == Spec => Capacity!Spec
<1>1. Init => Capacity!Init BY DEF Init
<1>2. Owned /\ [Next]_jvars => [Capacity!Next]_(Capacity!pvars)
    <2> SUFFICES ASSUME Owned, [Next]_jvars
                 PROVE  Capacity!Next \/ UNCHANGED Capacity!pvars
        OBVIOUS
    <2>1. CASE UNCHANGED jvars BY <2>1 DEF jvars, Capacity!pvars, Exposed
    <2>2. CASE Serve BY <2>2 DEF Serve, Capacity!Next
    <2>3. ASSUME NEW T \in SUBSET sold, GiveUp(T)
          PROVE  Capacity!Next
        BY <2>3 DEF GiveUp, Capacity!Next
    <2> QED BY <2>1, <2>2, <2>3, ExposedMoves DEF Next
<1> QED BY <1>1, <1>2, OwnedInductive, PTL DEF Spec, Capacity!Spec

\* And the payment of each order keeps its own.
THEOREM TogetherIsPaymentPromise ==
    ASSUME NEW q \in Quotes
    PROVE  Spec => Payment(q)!Spec
<1>1. Init => Payment(q)!Init BY DEF Init, NoPayment, Payment!Init
<1>2. Owned /\ [Next]_jvars => [Payment(q)!Next]_(Payment(q)!pvars)
    <2> SUFFICES ASSUME Owned, [Next]_jvars
                 PROVE  Payment(q)!Next \/ payment'[q] = payment[q]
        BY DEF Payment!pvars
    <2>1. CASE UNCHANGED jvars BY <2>1 DEF jvars
    <2>2. CASE Serve BY <2>2 DEF Serve
    <2>3. ASSUME NEW T \in SUBSET sold, GiveUp(T)
          PROVE  Payment(q)!Next \/ payment'[q] = payment[q]
        BY <2>3 DEF GiveUp, Payment!Next
    <2>4. ASSUME NEW h \in Quotes, Pay(h)
          PROVE  Payment(q)!Next \/ payment'[q] = payment[q]
        BY <2>4 DEF Pay, Owned
    <2> QED BY <2>1, <2>2, <2>3, <2>4 DEF Next
<1> QED BY <1>1, <1>2, OwnedInductive, PTL DEF Spec, Payment!Spec

-----------------------------------------------------------------------------
(* The parts make the joint promise.  PreorderCapacity keeps CapacityAlone   *)
(* (KeepsTheJointPromise), PreorderPayment keeps EachPayment of its order    *)
(* (KeepsThePaymentPromise), and OneTransaction is what the rows of one      *)
(* database give: a command that touches a payment touches that of one order *)
(* with units, or those of the orders whose units it gives back.             *)

\* A payment as capacity sees it.
Seen ==
    [q \in Quotes |->
        [stage |-> payment[q].stage, lapsed |-> payment[q].lapsed,
         money |-> {}, paid |-> {}, confirmed |-> FALSE]]

Alone == INSTANCE PreorderPromise WITH Attempts <- {}, payment <- Seen

CapacityAlone == Alone!Spec

EachPayment ==
    /\ payment = [q \in Quotes |-> NoPayment]
    /\ [][\A q \in Quotes : Payment(q)!Next \/ payment'[q] = payment[q]]_jvars

Touches ==
    \/ UNCHANGED payment
    \/ /\ UNCHANGED <<offer, cart, held, sold>>
       /\ \E q \in sold : payment' = [payment EXCEPT ![q] = payment'[q]]
    \/ \E T \in SUBSET sold :
          /\ sold' = sold \ T
          /\ payment' = [q \in Quotes |-> IF q \in T THEN payment'[q] ELSE payment[q]]

OneTransaction == [][Touches]_jvars

\* Capacity decides about the same orders, whether it sees money or not.
LEMMA SameExposed == Alone!Exposed = Exposed /\ Alone!Exposed' = Exposed'
BY DEF Alone!Exposed, Exposed, Seen

LEMMA SameCapacity ==
    /\ (Alone!Capacity!Init <=> Capacity!Init)
    /\ (Alone!Capacity!Republish <=> Capacity!Republish)
    /\ \A R \in SUBSET held : (Alone!Capacity!Free(R) <=> Capacity!Free(R))
    /\ \A T \in SUBSET sold : (Alone!Capacity!Drop(T) <=> Capacity!Drop(T))
    /\ \A q \in Quotes : (Alone!Capacity!Fill(q) <=> Capacity!Fill(q))
    /\ \A q \in Quotes, R \in SUBSET held :
          /\ (Alone!Capacity!Hold(q, R) <=> Capacity!Hold(q, R))
          /\ (Alone!Capacity!Sell(q, R) <=> Capacity!Sell(q, R))
          /\ (Alone!Capacity!Convert(q, R) <=> Capacity!Convert(q, R))
<1>1. \A q \in Quotes : (Alone!Capacity!Fits(q) <=> Capacity!Fits(q))
    BY DEF Alone!Capacity!Fits, Capacity!Fits, Alone!Capacity!Given, Capacity!Given,
           Alone!Capacity!On, Capacity!On, Alone!Capacity!Quantity, Capacity!Quantity
<1>2. (Alone!Capacity!Init <=> Capacity!Init)
    BY SameExposed DEF Alone!Capacity!Init, Capacity!Init
<1>3. (Alone!Capacity!Republish <=> Capacity!Republish)
    BY SameExposed DEF Alone!Capacity!Republish, Capacity!Republish
<1>4. \A R \in SUBSET held : (Alone!Capacity!Free(R) <=> Capacity!Free(R))
    BY SameExposed DEF Alone!Capacity!Free, Capacity!Free
<1>5. \A T \in SUBSET sold : (Alone!Capacity!Drop(T) <=> Capacity!Drop(T))
    BY SameExposed DEF Alone!Capacity!Drop, Capacity!Drop
<1>6. \A q \in Quotes : (Alone!Capacity!Fill(q) <=> Capacity!Fill(q))
    BY SameExposed DEF Alone!Capacity!Fill, Capacity!Fill
<1>7. \A q \in Quotes, R \in SUBSET held :
          /\ (Alone!Capacity!Hold(q, R) <=> Capacity!Hold(q, R))
          /\ (Alone!Capacity!Sell(q, R) <=> Capacity!Sell(q, R))
          /\ (Alone!Capacity!Convert(q, R) <=> Capacity!Convert(q, R))
    BY <1>1, SameExposed
       DEF Alone!Capacity!Hold, Capacity!Hold, Alone!Capacity!Sell, Capacity!Sell,
           Alone!Capacity!Convert, Capacity!Convert
<1> QED BY <1>2, <1>3, <1>4, <1>5, <1>6, <1>7

\* A payment nobody else moves: it moves as it may, and does not end.
LEMMA PartsPay ==
    ASSUME Owned, NEW q \in sold,
           Payment(q)!Next \/ payment'[q] = payment[q],
           payment' = [payment EXCEPT ![q] = payment'[q]],
           UNCHANGED <<offer, cart, held, sold>>,
           Alone!Serve \/ (\E h \in Quotes : Alone!Pay(h)) \/ UNCHANGED Seen
    PROVE  Next \/ UNCHANGED jvars
<1>1. q \in Quotes BY DEF Owned
<1>2. CASE payment'[q] = payment[q]
    <2>1. payment' = payment BY <1>2 DEF Owned
    <2> QED BY <2>1 DEF jvars
<1>3. CASE Payment(q)!Next
    <2>1. ASSUME Payment(q)!Expire
          PROVE  FALSE
        <3>1. /\ payment[q].stage = "unpaid" /\ payment[q].lapsed
              /\ payment'[q].stage = "expired" /\ payment'[q].lapsed = payment[q].lapsed
            BY <2>1 DEF Payment!Expire
        <3>2. Seen[q].stage # Seen'[q].stage /\ Alone!Payment(q)!Expire
            BY <1>1, <3>1 DEF Seen, Alone!Payment!Expire
        <3>3. PICK h \in Quotes : Alone!Pay(h)
            BY <3>2 DEF Alone!Serve
        <3>4. Seen' = [Seen EXCEPT ![h] = Seen'[h]] /\ ~Alone!Payment(h)!Expire
            BY <3>3 DEF Alone!Pay
        <3>5. h = q BY <1>1, <3>2, <3>4 DEF Seen
        <3> QED BY <3>2, <3>4, <3>5
    <2>2. Pay(q) BY <1>3, <2>1 DEF Pay
    <2> QED BY <1>1, <2>2 DEF Next
<1> QED BY <1>2, <1>3

\* A command of capacity that leaves the payments alone.
LEMMA PartsServe ==
    ASSUME Owned, Alone!Serve, payment' = payment
    PROVE  Next
<1>1. ASSUME NEW q \in Quotes, q \notin sold, Seen[q] = Alone!NoPayment
      PROVE  payment[q] = NoPayment
    <2>1. payment[q].stage # "expired" BY <1>1 DEF Seen, Alone!NoPayment
    <2> QED BY <1>1, <2>1 DEF Owned
<1>2. Serve
    BY <1>1, SameCapacity
       DEF Alone!Serve, Serve, Alone!Capacity!Sell, Alone!Capacity!Convert
<1> QED BY <1>2 DEF Next

\* Orders lose their units, and their payments end with them.
LEMMA PartsGiveUp ==
    ASSUME Owned, NEW T \in SUBSET sold, T # {}, Alone!GiveUp(T), Touches,
           \A q \in Quotes : Payment(q)!Next \/ payment'[q] = payment[q]
    PROVE  Next
<1>1. sold \subseteq Quotes BY DEF Owned
<1>2. Capacity!Drop(T) /\ sold' = sold \ T
    BY SameCapacity DEF Alone!GiveUp, Capacity!Drop
<1>3. ASSUME NEW q \in T
      PROVE  Payment(q)!Expire /\ payment'[q] # payment[q]
    <2>1. payment[q].stage = "unpaid" /\ payment'[q].stage = "expired"
        BY <1>1 DEF Alone!GiveUp, Alone!Payment!Expire, Seen
    <2>2. Payment(q)!Next BY <1>1, <2>1
    <2> QED BY <1>1, <2>1, <2>2, PaymentMoves DEF Owned
<1>4. payment' = [q \in Quotes |-> IF q \in T THEN payment'[q] ELSE payment[q]]
    <2>1. PICK q \in T : TRUE OBVIOUS
    <2>2. payment' # payment BY <1>3, <2>1
    <2>3. sold' # sold BY <1>2, <2>1
    <2>4. PICK U \in SUBSET sold :
              /\ sold' = sold \ U
              /\ payment' = [h \in Quotes |-> IF h \in U THEN payment'[h] ELSE payment[h]]
        BY <2>2, <2>3 DEF Touches
    <2>5. U = T BY <1>2, <2>4
    <2> QED BY <2>4, <2>5
<1>5. GiveUp(T) BY <1>2, <1>3, <1>4 DEF GiveUp
<1> QED BY <1>5 DEF Next

\* A step of every part at once is a step of the joint promise, or none.
LEMMA PartsNext ==
    ASSUME Owned, [Alone!Next]_(Alone!jvars), [Touches]_jvars,
           [\A q \in Quotes : Payment(q)!Next \/ payment'[q] = payment[q]]_jvars
    PROVE  [Next]_jvars
<1> SUFFICES ASSUME ~UNCHANGED jvars
             PROVE  Next
    OBVIOUS
<1>1. Touches /\ \A q \in Quotes : Payment(q)!Next \/ payment'[q] = payment[q]
    OBVIOUS
<1>2. sold \subseteq Quotes BY DEF Owned
<1>3. ASSUME NEW T \in SUBSET sold, Alone!GiveUp(T), T # {}
      PROVE  Next
    BY <1>1, <1>3, PartsGiveUp
<1>4. CASE \/ Alone!Serve \/ \E h \in Quotes : Alone!Pay(h)
           \/ UNCHANGED Alone!jvars \/ Alone!GiveUp({})
    <2>1. sold \subseteq sold'
        BY <1>4 DEF Alone!Serve, Alone!Pay, Alone!GiveUp, Alone!jvars,
                    Alone!Capacity!Republish, Alone!Capacity!Free, Alone!Capacity!Fill,
                    Alone!Capacity!Hold, Alone!Capacity!Sell, Alone!Capacity!Convert,
                    Alone!Capacity!Drop
    <2>2. \/ Alone!Serve
          \/ /\ UNCHANGED <<offer, cart, held, sold>>
             /\ (\E h \in Quotes : Alone!Pay(h)) \/ UNCHANGED Seen
        <3>1. Seen = [q \in Quotes |-> Seen[q]] BY DEF Seen
        <3>2. Alone!GiveUp({}) => UNCHANGED <<offer, cart, held, sold, Seen>>
            BY <3>1 DEF Alone!GiveUp, Alone!Capacity!Drop
        <3> QED BY <1>4, <3>2 DEF Alone!Pay, Alone!jvars
    <2>3. CASE payment' = payment
        <3>1. UNCHANGED Seen BY <2>3 DEF Seen
        <3> QED BY <2>2, <2>3, PartsServe DEF jvars
    <2>4. ASSUME NEW q \in sold, payment' = [payment EXCEPT ![q] = payment'[q]],
                 UNCHANGED <<offer, cart, held, sold>>
          PROVE  Next
        <3>1. Alone!Serve \/ (\E h \in Quotes : Alone!Pay(h)) \/ UNCHANGED Seen
            BY <2>2
        <3> QED BY <1>1, <1>2, <2>4, <3>1, PartsPay
    <2>5. ASSUME NEW T \in SUBSET sold, sold' = sold \ T,
                 payment' = [q \in Quotes |-> IF q \in T THEN payment'[q] ELSE payment[q]]
          PROVE  payment' = payment
        <3>1. T = {} BY <2>1, <2>5
        <3> QED BY <2>5, <3>1 DEF Owned
    <2> QED BY <1>1, <2>3, <2>4, <2>5 DEF Touches
<1> QED BY <1>3, <1>4 DEF Alone!Next

\* Conversely, a step of the joint promise is one of capacity alone.
LEMMA AloneNext ==
    ASSUME Owned, Next
    PROVE  Alone!Next \/ UNCHANGED Alone!jvars
<1>1. sold \subseteq Quotes BY DEF Owned
<1>2. CASE Serve
    <2>1. ASSUME NEW q \in Quotes, payment[q] = NoPayment
          PROVE  Seen[q] = Alone!NoPayment
        <3>1. payment[q].stage = "unpaid" /\ payment[q].lapsed = FALSE
            BY <2>1 DEF NoPayment
        <3> QED BY <3>1, Zenon DEF Seen, Alone!NoPayment
    <2>2. Seen' = Seen BY <1>2 DEF Serve, Seen
    <2>3. Alone!Serve BY <1>2, <2>1, <2>2, SameCapacity DEF Serve, Alone!Serve
    <2> QED BY <2>3 DEF Alone!Next
<1>3. ASSUME NEW T \in SUBSET sold, GiveUp(T)
      PROVE  Alone!Next
    <2>1. /\ \A q \in T : Payment(q)!Expire
          /\ payment' = [q \in Quotes |-> IF q \in T THEN payment'[q] ELSE payment[q]]
        BY <1>3 DEF GiveUp
    <2>2. \A q \in T : Alone!Payment(q)!Expire
        BY <1>1, <2>1 DEF Payment!Expire, Alone!Payment!Expire, Seen
    <2>3. Seen' = [q \in Quotes |-> IF q \in T THEN Seen'[q] ELSE Seen[q]]
        BY <2>1 DEF Seen
    <2>4. Alone!Capacity!Drop(T) BY <1>3, SameCapacity DEF GiveUp
    <2>5. Alone!GiveUp(T) BY <2>2, <2>3, <2>4 DEF Alone!GiveUp
    <2> QED BY <2>5 DEF Alone!Next
<1>4. ASSUME NEW q \in Quotes, Pay(q)
      PROVE  Alone!Next \/ UNCHANGED Alone!jvars
    <2>1. /\ q \in sold /\ Payment(q)!Next /\ ~Payment(q)!Expire
          /\ payment' = [payment EXCEPT ![q] = payment'[q]]
          /\ offer' = offer /\ cart' = cart /\ held' = held /\ sold' = sold
        BY <1>4 DEF Pay
    <2>2. \A h \in Quotes \ {q} : payment'[h] = payment[h] BY <2>1 DEF Owned
    <2>3. Seen' = [Seen EXCEPT ![q] = Seen'[q]] BY <2>2 DEF Seen
    <2>4. ASSUME Payment(q)!Expose \/ Payment(q)!Settle \/ Payment(q)!Lapse
          PROVE  Alone!Next
        <3>1. /\ Payment(q)!Expose => Alone!Payment(q)!Expose
              /\ Payment(q)!Settle => Alone!Payment(q)!Settle
              /\ Payment(q)!Lapse => Alone!Payment(q)!Lapse
            BY DEF Payment!Expose, Payment!Settle, Payment!Lapse, Alone!Payment!Expose,
                   Alone!Payment!Settle, Alone!Payment!Lapse, Seen
        <3>2. payment'[q].stage # "expired"
            BY <2>1, PaymentMoves DEF Owned
        <3>3. ~Alone!Payment(q)!Expire
            BY <3>2 DEF Alone!Payment!Expire, Seen
        <3>4. Alone!Pay(q)
            BY <2>1, <2>3, <2>4, <3>1, <3>3 DEF Alone!Pay, Alone!Payment!Next
        <3> QED BY <3>4 DEF Alone!Next
    <2>5. ASSUME payment'[q].stage = payment[q].stage,
                 payment'[q].lapsed = payment[q].lapsed
          PROVE  UNCHANGED Alone!jvars
        BY <2>1, <2>2, <2>5 DEF Seen, Alone!jvars
    <2> QED BY <2>1, <2>4, <2>5
            DEF Payment!Next, Payment!Take, Payment!Return, Payment!Confirm,
                Payment!Withdraw
<1> QED BY <1>2, <1>3, <1>4 DEF Next

\* A step of the joint promise moves each payment as it may, and those of one
\* order or of the orders given up.
LEMMA JointNext ==
    ASSUME Owned, Next
    PROVE  Touches /\ \A q \in Quotes : Payment(q)!Next \/ payment'[q] = payment[q]
<1>1. CASE Serve BY <1>1 DEF Serve, Touches
<1>2. ASSUME NEW T \in SUBSET sold, GiveUp(T)
      PROVE  Touches /\ \A q \in Quotes : Payment(q)!Next \/ payment'[q] = payment[q]
    <2>1. /\ sold' = sold \ T
          /\ payment' = [q \in Quotes |-> IF q \in T THEN payment'[q] ELSE payment[q]]
          /\ \A q \in T : Payment(q)!Expire
        BY <1>2 DEF GiveUp, Capacity!Drop
    <2> QED BY <2>1 DEF Touches, Payment!Next
<1>3. ASSUME NEW h \in Quotes, Pay(h)
      PROVE  Touches /\ \A q \in Quotes : Payment(q)!Next \/ payment'[q] = payment[q]
    BY <1>3 DEF Pay, Touches, Owned
<1> QED BY <1>1, <1>2, <1>3 DEF Next

\* Capacity, the payments and the rows they share make the joint promise, and
\* the joint promise demands nothing more of them.
THEOREM PartsMakeThePromise ==
    Spec <=> CapacityAlone /\ EachPayment /\ OneTransaction
<1>1. Alone!Init /\ payment = [q \in Quotes |-> NoPayment] <=> Init
    <2>1. payment = [q \in Quotes |-> NoPayment] =>
              Seen = [q \in Quotes |-> Alone!NoPayment]
        BY DEF Seen, NoPayment, Alone!NoPayment
    <2> QED BY <2>1, SameCapacity DEF Alone!Init, Init
<1>2. Init => Owned BY DEF Init, Owned, NoPayment, Capacity!Init
<1>3. /\ Owned /\ [Alone!Next]_(Alone!jvars) /\ [Touches]_jvars
      /\ [\A q \in Quotes : Payment(q)!Next \/ payment'[q] = payment[q]]_jvars
      => [Next]_jvars
    BY PartsNext
<1>4. Owned /\ [Next]_jvars =>
      /\ [Alone!Next]_(Alone!jvars) /\ [Touches]_jvars
      /\ [\A q \in Quotes : Payment(q)!Next \/ payment'[q] = payment[q]]_jvars
    <2>1. UNCHANGED jvars => UNCHANGED Alone!jvars BY DEF jvars, Alone!jvars, Seen
    <2> QED BY <2>1, AloneNext, JointNext
<1>5. Owned /\ [Next]_jvars => Owned' BY OwnedStep
<1> QED BY <1>1, <1>2, <1>3, <1>4, <1>5, PTL
        DEF CapacityAlone, Alone!Spec, EachPayment, OneTransaction, Spec
=============================================================================
