----------------------- MODULE PreorderCapacityProofs -----------------------
(***************************************************************************)
(* For every set of quotes, dates and policies: the counters of windows    *)
(* and of the ledger are the carts they stand for, a window stays within   *)
(* its limit, and a date is never promised beyond what was published.      *)
(***************************************************************************)
EXTENDS PreorderCapacity, FiniteSetTheorems, TLAPS

-----------------------------------------------------------------------------
(* The laws of sums of pickup units, from the laws of finite sets *)

\* The units of finitely many carts are finitely many: their sum is a natural.
LEMMA LoadType ==
    ASSUME NEW size, NEW S, IsFiniteSet(S), \A q \in S : size[q] \in Nat
    PROVE  IsFiniteSet(UnitsOf(size, S)) /\ Load(size, S) \in Nat
<1> DEFINE Cart(q) == {q} \X (1 .. size[q])
           Carts == {Cart(q) : q \in S}
           f == [q \in S |-> Cart(q)]
<1>1. ASSUME NEW q \in S
      PROVE  IsFiniteSet(Cart(q))
    <2>1. IsFiniteSet({q}) BY FS_Singleton
    <2>2. IsFiniteSet(1 .. size[q]) BY FS_Interval
    <2> QED BY <2>1, <2>2, FS_Product
<1>2. f \in Surjection(S, Carts)
    <2>1. f \in [S -> Carts] OBVIOUS
    <2>2. \A c \in Carts : \E q \in S : f[q] = c OBVIOUS
    <2> QED BY <2>1, <2>2 DEF Surjection
<1>3. IsFiniteSet(Carts) BY <1>2, FS_Surjection
<1>4. IsFiniteSet(UnitsOf(size, S)) BY <1>1, <1>3, FS_UNION DEF UnitsOf
<1> QED BY <1>4, FS_CardinalityType DEF Load

\* No cart, no units.
LEMMA LoadEmpty ==
    ASSUME NEW size
    PROVE  Load(size, {}) = 0
<1>1. UnitsOf(size, {}) = {} BY DEF UnitsOf
<1> QED BY <1>1, FS_EmptySet DEF Load

\* One cart takes its own quantity.
LEMMA LoadSingleton ==
    ASSUME NEW size, NEW q, size[q] \in Nat
    PROVE  Load(size, {q}) = size[q]
<1>1. UnitsOf(size, {q}) = {q} \X (1 .. size[q]) BY DEF UnitsOf
<1>2. IsFiniteSet({q}) /\ Cardinality({q}) = 1 BY FS_Singleton
<1>3. IsFiniteSet(1 .. size[q]) /\ Cardinality(1 .. size[q]) = size[q]
    BY FS_Interval
<1>4. Cardinality({q} \X (1 .. size[q])) = 1 * size[q] BY <1>2, <1>3, FS_Product
<1> QED BY <1>1, <1>4 DEF Load

\* Carts of two disjoint sets add up.
LEMMA LoadUnion ==
    ASSUME NEW size, NEW S, NEW T, IsFiniteSet(S), IsFiniteSet(T),
           S \cap T = {}, \A q \in S \cup T : size[q] \in Nat
    PROVE  Load(size, S \cup T) = Load(size, S) + Load(size, T)
<1>1. UnitsOf(size, S \cup T) = UnitsOf(size, S) \cup UnitsOf(size, T)
    BY DEF UnitsOf
<1>2. UnitsOf(size, S) \cap UnitsOf(size, T) = {} BY DEF UnitsOf
<1>3. IsFiniteSet(UnitsOf(size, S)) /\ IsFiniteSet(UnitsOf(size, T)) BY LoadType
<1>4. Load(size, S) \in Nat /\ Load(size, T) \in Nat BY LoadType
<1> DEFINE A == UnitsOf(size, S)
           B == UnitsOf(size, T)
<1>5. Cardinality(A \cup B) = Cardinality(A) + Cardinality(B) - Cardinality(A \cap B)
    BY <1>3, FS_Union
<1>6. Cardinality(A \cap B) = 0 BY <1>2, FS_EmptySet
<1>7. Load(size, S \cup T) = Load(size, S) + Load(size, T) - 0
    BY <1>1, <1>5, <1>6 DEF Load
<1> QED BY <1>4, <1>7

\* Carts taken out of a set are subtracted.
LEMMA LoadDifference ==
    ASSUME NEW size, NEW S, NEW T, IsFiniteSet(S), T \subseteq S,
           \A q \in S : size[q] \in Nat
    PROVE  /\ Load(size, S \ T) = Load(size, S) - Load(size, T)
           /\ Load(size, T) <= Load(size, S)
<1>1. IsFiniteSet(S \ T) /\ IsFiniteSet(T) BY FS_Difference, FS_Subset
<1>2. (S \ T) \cup T = S /\ (S \ T) \cap T = {} OBVIOUS
<1>3. Load(size, S) = Load(size, S \ T) + Load(size, T)
    BY <1>1, <1>2, LoadUnion
<1>4. Load(size, S \ T) \in Nat /\ Load(size, T) \in Nat BY <1>1, LoadType
<1> QED BY <1>3, <1>4

\* A sum looks at the carts of its set only.
LEMMA LoadSame ==
    ASSUME NEW f, NEW g, NEW S, \A q \in S : f[q] = g[q]
    PROVE  Load(f, S) = Load(g, S)
<1>1. UnitsOf(f, S) = UnitsOf(g, S) BY DEF UnitsOf
<1> QED BY <1>1 DEF Load

\* The units after the carts of "gone" left a set and those of "came" entered.
LEMMA LoadMoved ==
    ASSUME NEW size, NEW H, NEW gone, NEW came, NEW after,
           IsFiniteSet(H), IsFiniteSet(came),
           gone \subseteq H, came \cap H = {}, after = (H \ gone) \cup came,
           \A q \in H : size[q] \in Nat, \A q \in came : size[q] \in Nat
    PROVE  Load(size, after) = Load(size, H) - Load(size, gone) + Load(size, came)
<1> DEFINE left == H \ gone
<1>1. after = left \cup came OBVIOUS
<1>2. IsFiniteSet(left) BY FS_Difference
<1>3. left \cap came = {} OBVIOUS
<1>4. Load(size, left \cup came) = Load(size, left) + Load(size, came)
    BY <1>2, <1>3, LoadUnion
<1>5. Load(size, left) = Load(size, H) - Load(size, gone) BY LoadDifference
<1> QED BY <1>1, <1>4, <1>5

-----------------------------------------------------------------------------
(* The counters *)

Accounting == WindowAccounting /\ LedgerAccounting

\* Quantities are naturals and sets of quotes are finite, so their loads are
\* naturals too.
LEMMA Carts ==
    ASSUME TypeOK
    PROVE  /\ \A q \in Quotes : Size[q] \in Nat /\ Size[q] = quotes[q].quantity
           /\ \A S \in SUBSET Quotes : IsFiniteSet(S) /\ Load(Size, S) \in Nat
<1>1. \A q \in Quotes : Size[q] \in Nat /\ Size[q] = quotes[q].quantity
    BY CapacityAssumption DEF TypeOK, Quote, Size
<1>2. ASSUME NEW S \in SUBSET Quotes
      PROVE  IsFiniteSet(S) /\ Load(Size, S) \in Nat
    <2>1. IsFiniteSet(S) BY CapacityAssumption, FS_Subset
    <2>2. \A q \in S : Size[q] \in Nat BY <1>1
    <2> QED BY <2>1, <2>2, LoadType
<1> QED BY <1>1, <1>2

\* A step that keeps the counters, and the carts that have a hold or an order,
\* keeps the accounts.
LEMMA FrameAccounts ==
    ASSUME TypeOK, Accounting,
           \A q \in ActiveHolds \cup LiveOrders :
               /\ quotes'[q].version = quotes[q].version
               /\ quotes'[q].date = quotes[q].date
               /\ quotes'[q].quantity = quotes[q].quantity,
           ActiveHolds' = ActiveHolds, LiveOrders' = LiveOrders,
           ledger' = ledger,
           \A v \in Versions, d \in Dates :
               /\ windows'[v][d].held = windows[v][d].held
               /\ windows'[v][d].committed = windows[v][d].committed
    PROVE  Accounting'
<1>1. \A q \in ActiveHolds \cup LiveOrders : q \in Quotes /\ Size'[q] = Size[q]
    BY DEF Size, ActiveHolds, LiveOrders
<1>2. WindowAccounting'
    <2> SUFFICES ASSUME NEW v \in Versions, NEW d \in Dates
                 PROVE  /\ windows'[v][d].held = Load(Size', ActiveHolds' \cap QuotesFor(v, d)')
                        /\ windows'[v][d].committed = Load(Size', LiveOrders' \cap QuotesFor(v, d)')
        BY DEF WindowAccounting
    <2> DEFINE H == ActiveHolds \cap QuotesFor(v, d)
               L == LiveOrders \cap QuotesFor(v, d)
    <2>1. ActiveHolds' \cap QuotesFor(v, d)' = H BY <1>1 DEF QuotesFor
    <2>2. LiveOrders' \cap QuotesFor(v, d)' = L BY <1>1 DEF QuotesFor
    <2>3. /\ \A q \in H : Size'[q] = Size[q]
          /\ \A q \in L : Size'[q] = Size[q]
        BY <1>1
    <2>4. windows[v][d].held = Load(Size, H) /\ windows[v][d].committed = Load(Size, L)
        BY DEF Accounting, WindowAccounting
    <2> HIDE DEF H, L
    <2>5. Load(Size', H) = Load(Size, H) /\ Load(Size', L) = Load(Size, L)
        BY ONLY <2>3, LoadSame
    <2> QED BY <2>1, <2>2, <2>4, <2>5
<1>3. LedgerAccounting'
    <2> SUFFICES ASSUME NEW d \in Dates
                 PROVE  /\ ledger'[d].held = Load(Size', ActiveHolds' \cap QuotesOn(d)')
                        /\ ledger'[d].committed = Load(Size', LiveOrders' \cap QuotesOn(d)')
        BY DEF LedgerAccounting
    <2> DEFINE H == ActiveHolds \cap QuotesOn(d)
               L == LiveOrders \cap QuotesOn(d)
    <2>1. ActiveHolds' \cap QuotesOn(d)' = H BY <1>1 DEF QuotesOn
    <2>2. LiveOrders' \cap QuotesOn(d)' = L BY <1>1 DEF QuotesOn
    <2>3. /\ \A q \in H : Size'[q] = Size[q]
          /\ \A q \in L : Size'[q] = Size[q]
        BY <1>1
    <2>4. ledger[d].held = Load(Size, H) /\ ledger[d].committed = Load(Size, L)
        BY DEF Accounting, LedgerAccounting
    <2> HIDE DEF H, L
    <2>5. Load(Size', H) = Load(Size, H) /\ Load(Size', L) = Load(Size, L)
        BY ONLY <2>3, LoadSame
    <2> QED BY <2>1, <2>2, <2>4, <2>5
<1> QED BY <1>2, <1>3 DEF Accounting

\* The fields of a window row and of a ledger row after Moved.
LEMMA MovedWindow ==
    ASSUME NEW w \in Window, NEW gone, NEW came, NEW sold, NEW dropped,
           NEW m, m = Moved(w, gone, came, sold, dropped)
    PROVE  /\ m.held = w.held - Load(Size, gone) + Load(Size, came)
           /\ m.committed = w.committed + Load(Size, sold) - Load(Size, dropped)
           /\ m.limit = w.limit
           /\ m.held \in Nat /\ m.committed \in Nat => m \in Window
    BY DEF Moved, Window

\* The same for a ledger row.
LEMMA MovedCounter ==
    ASSUME NEW c \in Counter, NEW gone, NEW came, NEW sold, NEW dropped,
           NEW m, m = Moved(c, gone, came, sold, dropped)
    PROVE  /\ m.held = c.held - Load(Size, gone) + Load(Size, came)
           /\ m.committed = c.committed + Load(Size, sold) - Load(Size, dropped)
           /\ m.held \in Nat /\ m.committed \in Nat => m \in Counter
    BY DEF Moved, Counter

\* What a counter gains and loses by Move is what the holds and orders of its
\* carts gain and lose.
LEMMA MoveAccounts ==
    ASSUME TypeOK, Accounting, quotes' = quotes,
           NEW gone \in SUBSET ActiveHolds, NEW came \in SUBSET Quotes,
           NEW sold \in SUBSET Quotes, NEW dropped \in SUBSET LiveOrders,
           Move(gone, came, sold, dropped),
           came \cap ActiveHolds = {}, sold \cap LiveOrders = {},
           ActiveHolds' = (ActiveHolds \ gone) \cup came,
           LiveOrders' = (LiveOrders \ dropped) \cup sold
    PROVE  Accounting'
<1>1. Size' = Size BY DEF Size
<1>2. \A v \in Versions, d \in Dates : QuotesFor(v, d)' = QuotesFor(v, d)
    BY DEF QuotesFor
<1>3. \A d \in Dates : QuotesOn(d)' = QuotesOn(d) BY DEF QuotesOn
<1>4. ActiveHolds \in SUBSET Quotes /\ LiveOrders \in SUBSET Quotes
    BY DEF ActiveHolds, LiveOrders
<1>5. /\ IsFiniteSet(ActiveHolds) /\ IsFiniteSet(LiveOrders)
      /\ IsFiniteSet(came) /\ IsFiniteSet(sold)
      /\ \A q \in Quotes : Size[q] \in Nat
    BY <1>4, Carts
<1>6. ASSUME NEW R
      PROVE  /\ Load(Size, ActiveHolds' \cap R) =
                  Load(Size, ActiveHolds \cap R) - Load(Size, gone \cap R)
                    + Load(Size, came \cap R)
             /\ Load(Size, LiveOrders' \cap R) =
                  Load(Size, LiveOrders \cap R) - Load(Size, dropped \cap R)
                    + Load(Size, sold \cap R)
    <2> DEFINE H == ActiveHolds \cap R
               L == LiveOrders \cap R
               HNew == ActiveHolds' \cap R
               LNew == LiveOrders' \cap R
               out == gone \cap R
               in == came \cap R
               new == sold \cap R
               old == dropped \cap R
    <2>1. /\ IsFiniteSet(H) /\ IsFiniteSet(L) /\ IsFiniteSet(in) /\ IsFiniteSet(new)
          BY <1>5, FS_Intersection
    <2>2. /\ out \subseteq H /\ in \cap H = {} /\ HNew = (H \ out) \cup in
          /\ old \subseteq L /\ new \cap L = {} /\ LNew = (L \ old) \cup new
          OBVIOUS
    <2>3. /\ \A q \in H : Size[q] \in Nat
          /\ \A q \in L : Size[q] \in Nat
          /\ \A q \in in : Size[q] \in Nat
          /\ \A q \in new : Size[q] \in Nat
          BY <1>4, <1>5
    <2> HIDE DEF H, L, HNew, LNew, out, in, new, old
    <2>4. Load(Size, HNew) = Load(Size, H) - Load(Size, out) + Load(Size, in)
        BY ONLY <2>1, <2>2, <2>3, LoadMoved
    <2>5. Load(Size, LNew) = Load(Size, L) - Load(Size, old) + Load(Size, new)
        BY ONLY <2>1, <2>2, <2>3, LoadMoved
    <2> QED BY <2>4, <2>5 DEF H, L, HNew, LNew, out, in, new, old
<1>7. \A S \in SUBSET Quotes : Load(Size, S) \in Nat BY Carts
<1>8. WindowAccounting'
    <2> SUFFICES ASSUME NEW v \in Versions, NEW d \in Dates
                 PROVE  /\ windows'[v][d].held = Load(Size, ActiveHolds' \cap QuotesFor(v, d))
                        /\ windows'[v][d].committed = Load(Size, LiveOrders' \cap QuotesFor(v, d))
        BY <1>1, <1>2 DEF WindowAccounting
    <2> DEFINE R == QuotesFor(v, d)
    <2>1. windows'[v][d] = Moved(windows[v][d], gone \cap R, came \cap R,
                                 sold \cap R, dropped \cap R)
        BY DEF Move, WindowsAfter
    <2>2. windows[v][d] \in Window BY DEF TypeOK
    <2>3. /\ windows'[v][d].held = windows[v][d].held - Load(Size, gone \cap R)
                                     + Load(Size, came \cap R)
          /\ windows'[v][d].committed = windows[v][d].committed + Load(Size, sold \cap R)
                                     - Load(Size, dropped \cap R)
        BY <2>1, <2>2, MovedWindow
    <2>4. /\ windows[v][d].held = Load(Size, ActiveHolds \cap R)
          /\ windows[v][d].committed = Load(Size, LiveOrders \cap R)
        BY DEF Accounting, WindowAccounting
    <2>5. /\ Load(Size, LiveOrders \cap R) \in Nat /\ Load(Size, sold \cap R) \in Nat
          /\ Load(Size, dropped \cap R) \in Nat
        BY <1>4, <1>7
    <2> HIDE DEF R
    <2>6. /\ Load(Size, ActiveHolds' \cap R) =
               Load(Size, ActiveHolds \cap R) - Load(Size, gone \cap R)
                 + Load(Size, came \cap R)
          /\ Load(Size, LiveOrders' \cap R) =
               Load(Size, LiveOrders \cap R) - Load(Size, dropped \cap R)
                 + Load(Size, sold \cap R)
        BY <1>6, Zenon
    <2>7. /\ windows'[v][d].held = Load(Size, ActiveHolds' \cap R)
          /\ windows'[v][d].committed = Load(Size, LiveOrders' \cap R)
        BY ONLY <2>3, <2>4, <2>5, <2>6
    <2> QED BY <2>7 DEF R
<1>9. LedgerAccounting'
    <2> SUFFICES ASSUME NEW d \in Dates
                 PROVE  /\ ledger'[d].held = Load(Size, ActiveHolds' \cap QuotesOn(d))
                        /\ ledger'[d].committed = Load(Size, LiveOrders' \cap QuotesOn(d))
        BY <1>1, <1>3 DEF LedgerAccounting
    <2> DEFINE R == QuotesOn(d)
    <2>1. ledger'[d] = Moved(ledger[d], gone \cap R, came \cap R,
                             sold \cap R, dropped \cap R)
        BY DEF Move, LedgerAfter
    <2>2. ledger[d] \in Counter BY DEF TypeOK
    <2>3. /\ ledger'[d].held = ledger[d].held - Load(Size, gone \cap R)
                                 + Load(Size, came \cap R)
          /\ ledger'[d].committed = ledger[d].committed + Load(Size, sold \cap R)
                                 - Load(Size, dropped \cap R)
        BY <2>1, <2>2, MovedCounter
    <2>4. /\ ledger[d].held = Load(Size, ActiveHolds \cap R)
          /\ ledger[d].committed = Load(Size, LiveOrders \cap R)
        BY DEF Accounting, LedgerAccounting
    <2>5. /\ Load(Size, LiveOrders \cap R) \in Nat /\ Load(Size, sold \cap R) \in Nat
          /\ Load(Size, dropped \cap R) \in Nat
        BY <1>4, <1>7
    <2> HIDE DEF R
    <2>6. /\ Load(Size, ActiveHolds' \cap R) =
               Load(Size, ActiveHolds \cap R) - Load(Size, gone \cap R)
                 + Load(Size, came \cap R)
          /\ Load(Size, LiveOrders' \cap R) =
               Load(Size, LiveOrders \cap R) - Load(Size, dropped \cap R)
                 + Load(Size, sold \cap R)
        BY <1>6, Zenon
    <2>7. /\ ledger'[d].held = Load(Size, ActiveHolds' \cap R)
          /\ ledger'[d].committed = Load(Size, LiveOrders' \cap R)
        BY ONLY <2>3, <2>4, <2>5, <2>6
    <2> QED BY <2>7 DEF R
<1> QED BY <1>8, <1>9 DEF Accounting

-----------------------------------------------------------------------------
(* What one step does to a date and to a window *)

\* A date gains units only while the surface is enabled, up to its limit.
LedgerStep ==
    \A d \in Dates :
        \/ Used(ledger'[d]) <= Used(ledger[d])
        \/ surface.enabled /\ Used(ledger'[d]) <= surface.limit

\* A published window keeps its limit; only the current one gains units.
WindowStep ==
    \A v \in Versions, d \in Dates :
        v <= surface.version =>
            /\ windows'[v][d].limit = windows[v][d].limit
            /\ \/ Used(windows'[v][d]) <= Used(windows[v][d])
               \/ v = surface.version /\ Used(windows'[v][d]) <= windows[v][d].limit

CounterStep ==
    /\ windows' \in [Versions -> [Dates -> Window]]
    /\ ledger' \in [Dates -> Counter]
    /\ Accounting'
    /\ LedgerStep
    /\ WindowStep
    /\ WindowWithinLimit'


\* The accounts keep the counters natural.
LEMMA MoveTyped ==
    ASSUME TypeOK, Accounting', quotes' = quotes,
           ActiveHolds' \in SUBSET Quotes, LiveOrders' \in SUBSET Quotes,
           NEW gone, NEW came, NEW sold, NEW dropped,
           Move(gone, came, sold, dropped)
    PROVE  /\ windows' \in [Versions -> [Dates -> Window]]
           /\ ledger' \in [Dates -> Counter]
<1>1. Size' = Size BY DEF Size
<1>2. \A S \in SUBSET Quotes : Load(Size, S) \in Nat BY Carts
<1>3. ASSUME NEW R
      PROVE  /\ Load(Size, ActiveHolds' \cap R) \in Nat
             /\ Load(Size, LiveOrders' \cap R) \in Nat
    <2>1. ActiveHolds' \cap R \in SUBSET Quotes /\ LiveOrders' \cap R \in SUBSET Quotes
        OBVIOUS
    <2> QED BY <1>2, <2>1
<1>4. ASSUME NEW v \in Versions, NEW d \in Dates
      PROVE  windows'[v][d] \in Window
    <2> DEFINE R == QuotesFor(v, d)
    <2>1. windows'[v][d] = Moved(windows[v][d], gone \cap R, came \cap R,
                                 sold \cap R, dropped \cap R)
        BY DEF Move, WindowsAfter
    <2>2. windows[v][d] \in Window BY DEF TypeOK
    <2>3. /\ windows'[v][d].held = Load(Size, ActiveHolds' \cap QuotesFor(v, d)')
          /\ windows'[v][d].committed = Load(Size, LiveOrders' \cap QuotesFor(v, d)')
        BY <1>1 DEF Accounting, WindowAccounting
    <2>4. windows'[v][d].held \in Nat /\ windows'[v][d].committed \in Nat
        BY <2>3, <1>3
    <2> QED BY <2>1, <2>2, <2>4, MovedWindow
<1>5. ASSUME NEW d \in Dates
      PROVE  ledger'[d] \in Counter
    <2> DEFINE R == QuotesOn(d)
    <2>1. ledger'[d] = Moved(ledger[d], gone \cap R, came \cap R,
                             sold \cap R, dropped \cap R)
        BY DEF Move, LedgerAfter
    <2>2. ledger[d] \in Counter BY DEF TypeOK
    <2>3. /\ ledger'[d].held = Load(Size, ActiveHolds' \cap QuotesOn(d)')
          /\ ledger'[d].committed = Load(Size, LiveOrders' \cap QuotesOn(d)')
        BY <1>1 DEF Accounting, LedgerAccounting
    <2>4. ledger'[d].held \in Nat /\ ledger'[d].committed \in Nat
        BY <2>3, <1>3
    <2> QED BY <2>1, <2>2, <2>4, MovedCounter
<1>6. \A v \in Versions : windows'[v] \in [Dates -> Window]
    BY <1>4 DEF Move, WindowsAfter
<1>7. windows' \in [Versions -> [Dates -> Window]]
    BY <1>6 DEF Move, WindowsAfter
<1>8. ledger' \in [Dates -> Counter] BY <1>5 DEF Move, LedgerAfter
<1> QED BY <1>7, <1>8

\* The units of a set of quotes within a window or a date are naturals, and a
\* subset has no more of them.
LEMMA LoadWithin ==
    ASSUME TypeOK, NEW S \in SUBSET Quotes, NEW T \in SUBSET S, NEW R
    PROVE  /\ Load(Size, S \cap R) \in Nat
           /\ Load(Size, T \cap R) \in Nat
           /\ Load(Size, T \cap R) <= Load(Size, S \cap R)
<1> DEFINE A == S \cap R
           B == T \cap R
<1>1. A \in SUBSET Quotes /\ B \in SUBSET Quotes /\ B \subseteq A OBVIOUS
<1>2. IsFiniteSet(A) /\ Load(Size, A) \in Nat /\ Load(Size, B) \in Nat
    BY <1>1, Carts
<1>3. \A q \in A : Size[q] \in Nat BY <1>1, Carts
<1> HIDE DEF A, B
<1>4. Load(Size, B) <= Load(Size, A) BY <1>1, <1>2, <1>3, LoadDifference
<1> QED BY <1>2, <1>4 DEF A, B

\* Holds that end, holds that become orders and orders that end give units
\* back on every date and in every window.
LEMMA FreeStep ==
    ASSUME TypeOK, Accounting, WindowWithinLimit, quotes' = quotes,
           NEW gone \in SUBSET ActiveHolds, NEW sold \in SUBSET gone,
           NEW dropped \in SUBSET LiveOrders,
           Move(gone, {}, sold, dropped), sold \cap LiveOrders = {},
           ActiveHolds' = ActiveHolds \ gone,
           LiveOrders' = (LiveOrders \ dropped) \cup sold
    PROVE  CounterStep
<1>1. ActiveHolds \in SUBSET Quotes /\ LiveOrders \in SUBSET Quotes
    BY DEF ActiveHolds, LiveOrders
<1>2. Accounting'
    <2>1. {} \in SUBSET Quotes /\ {} \cap ActiveHolds = {}
          /\ ActiveHolds' = (ActiveHolds \ gone) \cup {} /\ sold \in SUBSET Quotes
        BY <1>1
    <2> QED BY <2>1, MoveAccounts
<1>3. /\ windows' \in [Versions -> [Dates -> Window]]
      /\ ledger' \in [Dates -> Counter]
    <2>1. ActiveHolds' \in SUBSET Quotes /\ LiveOrders' \in SUBSET Quotes BY <1>1
    <2> QED BY <1>2, <2>1, MoveTyped
<1>4. ASSUME NEW R
      PROVE  /\ Load(Size, gone \cap R) \in Nat /\ Load(Size, sold \cap R) \in Nat
             /\ Load(Size, dropped \cap R) \in Nat /\ Load(Size, {} \cap R) = 0
             /\ Load(Size, sold \cap R) <= Load(Size, gone \cap R)
    <2>1. gone \in SUBSET Quotes /\ dropped \in SUBSET Quotes BY <1>1
    <2>2. {} \cap R = {} OBVIOUS
    <2> QED BY <2>1, <2>2, LoadWithin, LoadEmpty
<1>5. ASSUME NEW v \in Versions, NEW d \in Dates
      PROVE  /\ Used(windows'[v][d]) <= Used(windows[v][d])
             /\ windows'[v][d].limit = windows[v][d].limit
             /\ Used(windows[v][d]) <= windows[v][d].limit
             /\ Used(windows'[v][d]) \in Nat /\ Used(windows[v][d]) \in Nat
             /\ windows[v][d].limit \in Nat
    <2> DEFINE R == QuotesFor(v, d)
    <2>1. windows'[v][d] = Moved(windows[v][d], gone \cap R, {} \cap R,
                                 sold \cap R, dropped \cap R)
        BY DEF Move, WindowsAfter
    <2>2. windows[v][d] \in Window /\ windows'[v][d] \in Window BY <1>3 DEF TypeOK
    <2> HIDE DEF R
    <2>3. /\ windows'[v][d].held = windows[v][d].held - Load(Size, gone \cap R)
                                     + Load(Size, {} \cap R)
          /\ windows'[v][d].committed = windows[v][d].committed
                 + Load(Size, sold \cap R) - Load(Size, dropped \cap R)
          /\ windows'[v][d].limit = windows[v][d].limit
        BY <2>1, <2>2, MovedWindow
    <2>4. /\ Load(Size, gone \cap R) \in Nat /\ Load(Size, sold \cap R) \in Nat
          /\ Load(Size, dropped \cap R) \in Nat /\ Load(Size, {} \cap R) = 0
          /\ Load(Size, sold \cap R) <= Load(Size, gone \cap R)
        BY <1>4, Zenon
    <2>5. Used(windows[v][d]) <= windows[v][d].limit BY DEF WindowWithinLimit
    <2> QED BY ONLY <2>2, <2>3, <2>4, <2>5 DEF Used, Window
<1>6. ASSUME NEW d \in Dates
      PROVE  Used(ledger'[d]) <= Used(ledger[d])
    <2> DEFINE R == QuotesOn(d)
    <2>1. ledger'[d] = Moved(ledger[d], gone \cap R, {} \cap R,
                             sold \cap R, dropped \cap R)
        BY DEF Move, LedgerAfter
    <2>2. ledger[d] \in Counter /\ ledger'[d] \in Counter BY <1>3 DEF TypeOK
    <2> HIDE DEF R
    <2>3. /\ ledger'[d].held = ledger[d].held - Load(Size, gone \cap R)
                                 + Load(Size, {} \cap R)
          /\ ledger'[d].committed = ledger[d].committed
                 + Load(Size, sold \cap R) - Load(Size, dropped \cap R)
        BY <2>1, <2>2, MovedCounter
    <2>4. /\ Load(Size, gone \cap R) \in Nat /\ Load(Size, sold \cap R) \in Nat
          /\ Load(Size, dropped \cap R) \in Nat /\ Load(Size, {} \cap R) = 0
          /\ Load(Size, sold \cap R) <= Load(Size, gone \cap R)
        BY <1>4, Zenon
    <2> QED BY ONLY <2>2, <2>3, <2>4 DEF Used, Counter
<1>7. LedgerStep BY <1>6 DEF LedgerStep
<1>8. WindowStep BY <1>5 DEF WindowStep
<1>9. WindowWithinLimit' BY <1>5 DEF WindowWithinLimit
<1> QED BY <1>2, <1>3, <1>7, <1>8, <1>9 DEF CounterStep

\* A hold or an order that finds room in its window and on its date gives its
\* own units to both and to no other, after the swept holds left.
LEMMA AdmitStep ==
    ASSUME TypeOK, Accounting, WindowWithinLimit, quotes' = quotes,
           NEW q \in Quotes, NEW S \in SUBSET ActiveHolds,
           NEW came, NEW sold,
           \/ came = {q} /\ sold = {}
           \/ came = {} /\ sold = {q},
           Move(S, came, sold, {}),
           came \cap ActiveHolds = {}, sold \cap LiveOrders = {},
           ActiveHolds' = (ActiveHolds \ S) \cup came,
           LiveOrders' = LiveOrders \cup sold,
           Current(q), RoomInWindow(q, S), RoomOnDate(q, S)
    PROVE  /\ CounterStep
           /\ surface.enabled /\ Used(ledger'[quotes[q].date]) <= surface.limit
<1>1. ActiveHolds \in SUBSET Quotes /\ LiveOrders \in SUBSET Quotes
    BY DEF ActiveHolds, LiveOrders
<1>2. came \in SUBSET Quotes /\ sold \in SUBSET Quotes OBVIOUS
<1>3. Accounting'
    <2>1. {} \in SUBSET LiveOrders /\ LiveOrders' = (LiveOrders \ {}) \cup sold
        OBVIOUS
    <2> QED BY <1>2, <2>1, MoveAccounts
<1>4. /\ windows' \in [Versions -> [Dates -> Window]]
      /\ ledger' \in [Dates -> Counter]
    <2>1. ActiveHolds' \in SUBSET Quotes /\ LiveOrders' \in SUBSET Quotes
        BY <1>1, <1>2
    <2> QED BY <1>3, <2>1, MoveTyped
\* Inside the region of q the step adds its quantity, elsewhere nothing.
<1>5. ASSUME NEW R
      PROVE  /\ Load(Size, S \cap R) \in Nat
             /\ Load(Size, {} \cap R) = 0
             /\ Load(Size, came \cap R) + Load(Size, sold \cap R) =
                  IF q \in R THEN quotes[q].quantity ELSE 0
             /\ Load(Size, came \cap R) \in Nat /\ Load(Size, sold \cap R) \in Nat
    <2>1. Load(Size, S \cap R) \in Nat
        <3>1. S \in SUBSET Quotes BY <1>1
        <3> QED BY <3>1, LoadWithin
    <2>2. Load(Size, {} \cap R) = 0
        <3>1. {} \cap R = {} OBVIOUS
        <3> QED BY <3>1, LoadEmpty
    <2>3. Load(Size, {q} \cap R) = IF q \in R THEN quotes[q].quantity ELSE 0
        <3>1. Size[q] \in Nat /\ Size[q] = quotes[q].quantity BY Carts
        <3>2. CASE q \in R
            <4>1. {q} \cap R = {q} BY <3>2
            <4> QED BY <3>1, <3>2, <4>1, LoadSingleton
        <3>3. CASE q \notin R
            <4>1. {q} \cap R = {} BY <3>3
            <4> QED BY <3>3, <4>1, LoadEmpty
        <3> QED BY <3>2, <3>3
    <2>4. quotes[q].quantity \in Nat BY Carts
    <2>5. CASE came = {q} /\ sold = {}
        BY <2>1, <2>2, <2>3, <2>4, <2>5
    <2>6. CASE came = {} /\ sold = {q}
        BY <2>1, <2>2, <2>3, <2>4, <2>6
    <2> QED BY <2>5, <2>6
<1>6. ASSUME NEW v \in Versions, NEW d \in Dates
      PROVE  LET w == windows[v][d]
                 n == windows'[v][d]
                 R == QuotesFor(v, d)
             IN  /\ w.held \in Nat /\ w.committed \in Nat
                 /\ n.held \in Nat /\ n.committed \in Nat
                 /\ n.limit = w.limit /\ w.limit \in Nat
                 /\ Used(w) <= w.limit
                 /\ Load(Size, S \cap R) \in Nat
                 /\ Used(n) = Used(w) - Load(Size, S \cap R)
                       + (IF q \in R THEN quotes[q].quantity ELSE 0)
    <2> DEFINE R == QuotesFor(v, d)
    <2>1. windows'[v][d] = Moved(windows[v][d], S \cap R, came \cap R,
                                 sold \cap R, {} \cap R)
        BY DEF Move, WindowsAfter
    <2>2. windows[v][d] \in Window /\ windows'[v][d] \in Window BY <1>4 DEF TypeOK
    <2> HIDE DEF R
    <2>3. /\ windows'[v][d].held = windows[v][d].held - Load(Size, S \cap R)
                                     + Load(Size, came \cap R)
          /\ windows'[v][d].committed = windows[v][d].committed
                 + Load(Size, sold \cap R) - Load(Size, {} \cap R)
          /\ windows'[v][d].limit = windows[v][d].limit
        BY <2>1, <2>2, MovedWindow
    <2>4. /\ Load(Size, S \cap R) \in Nat
          /\ Load(Size, {} \cap R) = 0
          /\ Load(Size, came \cap R) + Load(Size, sold \cap R) =
               IF q \in R THEN quotes[q].quantity ELSE 0
          /\ Load(Size, came \cap R) \in Nat /\ Load(Size, sold \cap R) \in Nat
        BY <1>5, Zenon
    <2>5. Used(windows[v][d]) <= windows[v][d].limit BY DEF WindowWithinLimit
    <2>6. quotes[q].quantity \in Nat BY Carts
    <2>7. /\ Used(windows'[v][d]) = Used(windows[v][d]) - Load(Size, S \cap R)
               + (IF q \in R THEN quotes[q].quantity ELSE 0)
          /\ windows[v][d].held \in Nat /\ windows[v][d].committed \in Nat
          /\ windows'[v][d].held \in Nat /\ windows'[v][d].committed \in Nat
          /\ windows[v][d].limit \in Nat
        BY ONLY <2>2, <2>3, <2>4, <2>6 DEF Used, Window
    <2> QED BY <2>3, <2>4, <2>5, <2>7 DEF R
<1>7. ASSUME NEW d \in Dates
      PROVE  LET R == QuotesOn(d)
             IN  /\ Used(ledger[d]) \in Nat
                 /\ Load(Size, S \cap R) \in Nat
                 /\ Used(ledger'[d]) = Used(ledger[d]) - Load(Size, S \cap R)
                       + (IF q \in R THEN quotes[q].quantity ELSE 0)
    <2> DEFINE R == QuotesOn(d)
    <2>1. ledger'[d] = Moved(ledger[d], S \cap R, came \cap R,
                             sold \cap R, {} \cap R)
        BY DEF Move, LedgerAfter
    <2>2. ledger[d] \in Counter /\ ledger'[d] \in Counter BY <1>4 DEF TypeOK
    <2> HIDE DEF R
    <2>3. /\ ledger'[d].held = ledger[d].held - Load(Size, S \cap R)
                                 + Load(Size, came \cap R)
          /\ ledger'[d].committed = ledger[d].committed
                 + Load(Size, sold \cap R) - Load(Size, {} \cap R)
        BY <2>1, <2>2, MovedCounter
    <2>4. /\ Load(Size, S \cap R) \in Nat
          /\ Load(Size, {} \cap R) = 0
          /\ Load(Size, came \cap R) + Load(Size, sold \cap R) =
               IF q \in R THEN quotes[q].quantity ELSE 0
          /\ Load(Size, came \cap R) \in Nat /\ Load(Size, sold \cap R) \in Nat
        BY <1>5, Zenon
    <2>5. quotes[q].quantity \in Nat BY Carts
    <2>6. /\ Used(ledger'[d]) = Used(ledger[d]) - Load(Size, S \cap R)
               + (IF q \in R THEN quotes[q].quantity ELSE 0)
          /\ Used(ledger[d]) \in Nat
        BY ONLY <2>2, <2>3, <2>4, <2>5 DEF Used, Counter
    <2> QED BY <2>4, <2>6 DEF R
<1>d. quotes[q].date \in Dates BY DEF TypeOK, Quote
<1>e. surface.enabled /\ Used(ledger'[quotes[q].date]) <= surface.limit
    <2>1. q \in QuotesOn(quotes[q].date) BY DEF QuotesOn
    <2> QED BY <1>7, <1>d, <2>1 DEF RoomOnDate
<1>8. LedgerStep
    <2> SUFFICES ASSUME NEW d \in Dates
                 PROVE  \/ Used(ledger'[d]) <= Used(ledger[d])
                        \/ surface.enabled /\ Used(ledger'[d]) <= surface.limit
        BY DEF LedgerStep
    <2>1. CASE q \in QuotesOn(d)
        <3>1. d = quotes[q].date BY <2>1 DEF QuotesOn
        <3> QED BY <1>e, <3>1
    <2>2. CASE q \notin QuotesOn(d)
        <3>1. /\ Used(ledger[d]) \in Nat
              /\ Load(Size, S \cap QuotesOn(d)) \in Nat
              /\ Used(ledger'[d]) = Used(ledger[d]) - Load(Size, S \cap QuotesOn(d)) + 0
            BY <1>7, <2>2
        <3> QED BY <3>1
    <2> QED BY <2>1, <2>2
<1>9. ASSUME NEW v \in Versions, NEW d \in Dates
      PROVE  /\ windows'[v][d].limit = windows[v][d].limit
             /\ \/ Used(windows'[v][d]) <= Used(windows[v][d])
                \/ v = surface.version /\ Used(windows'[v][d]) <= windows[v][d].limit
             /\ Used(windows'[v][d]) <= windows[v][d].limit
    <2> DEFINE R == QuotesFor(v, d)
    <2>0. /\ windows[v][d].held \in Nat /\ windows[v][d].committed \in Nat
          /\ windows[v][d].limit \in Nat
          /\ windows'[v][d].limit = windows[v][d].limit
          /\ Used(windows[v][d]) <= windows[v][d].limit
          /\ Load(Size, S \cap R) \in Nat
          /\ Used(windows'[v][d]) = Used(windows[v][d]) - Load(Size, S \cap R)
               + (IF q \in R THEN quotes[q].quantity ELSE 0)
        BY <1>6
    <2>1. CASE q \in R
        <3>1. v = quotes[q].version /\ d = quotes[q].date BY <2>1 DEF QuotesFor
        <3>2. v = surface.version BY <3>1 DEF Current
        <3>3. Used(windows[v][d]) - Load(Size, S \cap R) + quotes[q].quantity
                <= windows[v][d].limit
            BY <3>1 DEF RoomInWindow, WindowOf
        <3> HIDE DEF R
        <3> QED BY <2>0, <2>1, <3>2, <3>3
    <2>2. CASE q \notin R
        <3> HIDE DEF R
        <3>1. Used(windows'[v][d]) = Used(windows[v][d]) - Load(Size, S \cap R) + 0
            BY <2>0, <2>2
        <3> QED BY ONLY <2>0, <3>1 DEF Used
    <2> QED BY <2>1, <2>2
<1>10. WindowStep BY <1>9 DEF WindowStep
<1>11. WindowWithinLimit' BY <1>9 DEF WindowWithinLimit
<1> QED BY <1>3, <1>4, <1>e, <1>8, <1>10, <1>11 DEF CounterStep

\* A step that moves no units: published windows keep their counters and their
\* limit, and a new window is empty.
LEMMA FrameStep ==
    ASSUME TypeOK, Accounting, WindowWithinLimit,
           \A q \in ActiveHolds \cup LiveOrders :
               /\ quotes'[q].version = quotes[q].version
               /\ quotes'[q].date = quotes[q].date
               /\ quotes'[q].quantity = quotes[q].quantity,
           ActiveHolds' = ActiveHolds, LiveOrders' = LiveOrders,
           ledger' = ledger,
           windows' \in [Versions -> [Dates -> Window]],
           \A v \in Versions, d \in Dates :
               /\ windows'[v][d].held = windows[v][d].held
               /\ windows'[v][d].committed = windows[v][d].committed
               /\ \/ windows'[v][d].limit = windows[v][d].limit
                  \/ surface.version < v /\ windows'[v][d].held = 0
                       /\ windows'[v][d].committed = 0
    PROVE  CounterStep
<1>1. Accounting' BY FrameAccounts
<1>2. ledger' \in [Dates -> Counter] BY DEF TypeOK
<1>3. LedgerStep BY DEF LedgerStep, TypeOK, Counter, Used
<1>4. surface.version \in Nat BY DEF TypeOK, Surface, Versions
<1>5. ASSUME NEW v \in Versions, NEW d \in Dates
      PROVE  /\ v <= surface.version =>
                   /\ windows'[v][d].limit = windows[v][d].limit
                   /\ Used(windows'[v][d]) <= Used(windows[v][d])
             /\ Used(windows'[v][d]) <= windows'[v][d].limit
    <2>1. windows[v][d] \in Window /\ windows'[v][d] \in Window BY DEF TypeOK
    <2>2. v \in Nat BY CapacityAssumption DEF Versions
    <2>3. Used(windows[v][d]) <= windows[v][d].limit BY DEF WindowWithinLimit
    <2> QED BY <1>4, <2>1, <2>2, <2>3 DEF Used, Window
<1>6. WindowStep BY <1>5 DEF WindowStep
<1>7. WindowWithinLimit' BY <1>5 DEF WindowWithinLimit
<1> QED BY <1>1, <1>2, <1>3, <1>6, <1>7 DEF CounterStep

-----------------------------------------------------------------------------
(* The steps *)

\* The rows other than counters after a step.
RowStep ==
    /\ surface' \in Surface
    /\ quotes' \in [Quotes -> Quote]
    /\ holds' \in [Quotes -> HoldStatus]
    /\ orders' \in [Quotes -> OrderState]
    /\ QuotesKnown'
    /\ PolicyInForce'
    /\ surface.version <= surface'.version

\* A command that moves units leaves configuration and quotes alone.
LEMMA CommandRows ==
    ASSUME Inductive, surface' = surface, quotes' = quotes, WindowStep,
           holds' \in [Quotes -> HoldStatus], orders' \in [Quotes -> OrderState],
           \A q \in Quotes : holds'[q] # holds[q] \/ orders'[q] # orders[q] =>
               quotes[q].state # "none"
    PROVE  RowStep
<1>1. surface.version \in Versions /\ surface.version \in Nat
    BY CapacityAssumption DEF Inductive, TypeOK, Surface, Versions
<1>2. QuotesKnown' BY DEF Inductive, QuotesKnown
<1>3. PolicyInForce' BY <1>1 DEF Inductive, PolicyInForce, WindowStep
<1> QED BY <1>1, <1>2, <1>3 DEF Inductive, TypeOK, RowStep

\* Holds that are swept are active holds of quotes that were made.
LEMMA SweptHolds ==
    ASSUME Inductive, NEW S \in SUBSET DueHolds
    PROVE  /\ S \in SUBSET ActiveHolds
           /\ Swept(S) \in [Quotes -> HoldStatus]
           /\ {h \in Quotes : Swept(S)[h] = "active"} = ActiveHolds \ S
           /\ \A h \in Quotes : Swept(S)[h] # holds[h] => quotes[h].state # "none"
<1>1. S \in SUBSET ActiveHolds BY DEF DueHolds
<1>2. Swept(S) \in [Quotes -> HoldStatus]
    BY DEF Swept, Inductive, TypeOK, HoldStatus
<1>3. {h \in Quotes : Swept(S)[h] = "active"} = ActiveHolds \ S
    BY DEF Swept, ActiveHolds
<1>4. \A h \in Quotes : Swept(S)[h] # holds[h] => quotes[h].state # "none"
    BY <1>1 DEF Swept, ActiveHolds, Inductive, QuotesKnown
<1> QED BY <1>1, <1>2, <1>3, <1>4

\* Action 'create': the swept holds leave and the quote's units are admitted.
LEMMA CreateHoldStep ==
    ASSUME Inductive, NEW q \in Quotes, NEW S \in SUBSET Quotes, CreateHold(q, S)
    PROVE  /\ CounterStep /\ RowStep
           /\ surface.enabled /\ Used(ledger'[quotes[q].date]) <= surface.limit
<1>1. TypeOK /\ Accounting /\ WindowWithinLimit BY DEF Inductive, Accounting
<1>2. S \in SUBSET DueHolds BY DEF CreateHold
<1>3. holds' = [Swept(S) EXCEPT ![q] = "active"] /\ holds[q] = "none"
    BY DEF CreateHold
<1>4. ActiveHolds' = (ActiveHolds \ S) \cup {q}
    BY <1>2, <1>3, SweptHolds DEF ActiveHolds
<1>5. {q} \cap ActiveHolds = {} BY <1>3 DEF ActiveHolds
<1>6. LiveOrders' = LiveOrders \cup {} BY DEF CreateHold, LiveOrders
<1>7. S \in SUBSET ActiveHolds BY <1>2, SweptHolds
<1>8. CounterStep /\ surface.enabled /\ Used(ledger'[quotes[q].date]) <= surface.limit
    <2>1. /\ quotes' = quotes /\ Move(S, {q}, {}, {})
          /\ Current(q) /\ RoomInWindow(q, S) /\ RoomOnDate(q, S)
        BY DEF CreateHold, Admissible
    <2>2. {} \cap LiveOrders = {} OBVIOUS
    <2> QED BY <1>1, <1>4, <1>5, <1>6, <1>7, <2>1, <2>2, AdmitStep
<1>9. RowStep
    <2>1. holds' \in [Quotes -> HoldStatus]
        BY <1>2, <1>3, SweptHolds DEF HoldStatus
    <2>2. quotes[q].state = "fresh" BY DEF CreateHold, Admissible
    <2>3. \A h \in Quotes : holds'[h] # holds[h] => quotes[h].state # "none"
        BY <1>2, <1>3, <2>2, SweptHolds
    <2>4. surface' = surface /\ quotes' = quotes /\ orders' = orders
        BY DEF CreateHold
    <2> QED BY <1>1, <1>8, <2>1, <2>3, <2>4, CommandRows
            DEF CounterStep, TypeOK
<1> QED BY <1>8, <1>9

\* An order without a hold admits its units as committed ones.
LEMMA OrderDirectStep ==
    ASSUME Inductive, NEW q \in Quotes, NEW S \in SUBSET Quotes, OrderDirect(q, S)
    PROVE  /\ CounterStep /\ RowStep
           /\ surface.enabled /\ Used(ledger'[quotes[q].date]) <= surface.limit
<1>1. TypeOK /\ Accounting /\ WindowWithinLimit BY DEF Inductive, Accounting
<1>2. S \in SUBSET DueHolds BY DEF OrderDirect
<1>3. /\ holds' = Swept(S)
      /\ orders' = [orders EXCEPT ![q] = "unpaid"] /\ orders[q] = "none"
    BY DEF OrderDirect
<1>4. ActiveHolds' = (ActiveHolds \ S) \cup {}
    BY <1>2, <1>3, SweptHolds DEF ActiveHolds
<1>5. LiveOrders' = LiveOrders \cup {q} /\ {q} \cap LiveOrders = {}
    BY <1>1, <1>3 DEF LiveOrders, TypeOK
<1>6. S \in SUBSET ActiveHolds BY <1>2, SweptHolds
<1>7. CounterStep /\ surface.enabled /\ Used(ledger'[quotes[q].date]) <= surface.limit
    <2>1. /\ quotes' = quotes /\ Move(S, {}, {q}, {})
          /\ Current(q) /\ RoomInWindow(q, S) /\ RoomOnDate(q, S)
        BY DEF OrderDirect, Admissible
    <2>2. {} \cap ActiveHolds = {} OBVIOUS
    <2> QED BY <1>1, <1>4, <1>5, <1>6, <2>1, <2>2, AdmitStep
<1>8. RowStep
    <2>1. holds' \in [Quotes -> HoldStatus] BY <1>2, <1>3, SweptHolds
    <2>2. orders' \in [Quotes -> OrderState]
        BY <1>1, <1>3 DEF TypeOK, OrderState
    <2>3. quotes[q].state = "fresh" BY DEF OrderDirect, Admissible
    <2>4. \A h \in Quotes : holds'[h] # holds[h] \/ orders'[h] # orders[h] =>
              quotes[h].state # "none"
        BY <1>1, <1>2, <1>3, <2>3, SweptHolds DEF TypeOK
    <2>5. surface' = surface /\ quotes' = quotes BY DEF OrderDirect
    <2> QED BY <1>7, <2>1, <2>2, <2>4, <2>5, CommandRows DEF CounterStep
<1> QED BY <1>7, <1>8

\* An order from a hold moves its units within one window, so the sum stands.
LEMMA OrderFromHoldStep ==
    ASSUME Inductive, NEW q \in Quotes, NEW S \in SUBSET Quotes, OrderFromHold(q, S)
    PROVE  CounterStep /\ RowStep
<1>1. TypeOK /\ Accounting /\ WindowWithinLimit BY DEF Inductive, Accounting
<1>2. S \in SUBSET DueHolds BY DEF OrderFromHold
<1>3. /\ holds' = [Swept(S) EXCEPT ![q] = "consumed"] /\ holds[q] = "active"
      /\ orders' = [orders EXCEPT ![q] = "unpaid"] /\ orders[q] = "none"
    BY DEF OrderFromHold
<1>4. ActiveHolds' = ActiveHolds \ (S \cup {q})
    BY <1>2, <1>3, SweptHolds DEF ActiveHolds
<1>5. LiveOrders' = (LiveOrders \ {}) \cup {q} /\ {q} \cap LiveOrders = {}
    BY <1>1, <1>3 DEF LiveOrders, TypeOK
<1>6. S \cup {q} \in SUBSET ActiveHolds /\ {q} \in SUBSET (S \cup {q})
    BY <1>2, <1>3, SweptHolds DEF ActiveHolds
<1>7. CounterStep
    <2>1. quotes' = quotes /\ Move(S \cup {q}, {}, {q}, {}) BY DEF OrderFromHold
    <2>2. {} \in SUBSET LiveOrders OBVIOUS
    <2> QED BY <1>1, <1>4, <1>5, <1>6, <2>1, <2>2, FreeStep
<1>8. RowStep
    <2>1. holds' \in [Quotes -> HoldStatus]
        BY <1>2, <1>3, SweptHolds DEF HoldStatus
    <2>2. orders' \in [Quotes -> OrderState]
        BY <1>1, <1>3 DEF TypeOK, OrderState
    <2>3. quotes[q].state = "fresh" BY DEF OrderFromHold, Admissible
    <2>4. \A h \in Quotes : holds'[h] # holds[h] \/ orders'[h] # orders[h] =>
              quotes[h].state # "none"
        BY <1>1, <1>2, <1>3, <2>3, SweptHolds DEF TypeOK
    <2>5. surface' = surface /\ quotes' = quotes BY DEF OrderFromHold
    <2> QED BY <1>7, <2>1, <2>2, <2>4, <2>5, CommandRows DEF CounterStep
<1> QED BY <1>7, <1>8

\* Action 'release' only frees.
LEMMA ReleaseHoldStep ==
    ASSUME Inductive, NEW q \in Quotes, NEW S \in SUBSET Quotes, ReleaseHold(q, S)
    PROVE  CounterStep /\ RowStep
<1>1. TypeOK /\ Accounting /\ WindowWithinLimit BY DEF Inductive, Accounting
<1>2. S \in SUBSET DueHolds BY DEF ReleaseHold
<1>3. holds' = [Swept(S) EXCEPT ![q] = "released"] /\ holds[q] = "active"
    BY DEF ReleaseHold
<1>4. ActiveHolds' = ActiveHolds \ (S \cup {q})
    BY <1>2, <1>3, SweptHolds DEF ActiveHolds
<1>5. LiveOrders' = (LiveOrders \ {}) \cup {} /\ {} \cap LiveOrders = {}
    BY DEF LiveOrders, ReleaseHold
<1>6. S \cup {q} \in SUBSET ActiveHolds /\ {} \in SUBSET (S \cup {q})
    BY <1>2, <1>3, SweptHolds DEF ActiveHolds
<1>7. CounterStep
    <2>1. quotes' = quotes /\ Move(S \cup {q}, {}, {}, {}) BY DEF ReleaseHold
    <2>2. {} \in SUBSET LiveOrders OBVIOUS
    <2> QED BY <1>1, <1>4, <1>5, <1>6, <2>1, <2>2, FreeStep
<1>8. RowStep
    <2>1. holds' \in [Quotes -> HoldStatus]
        BY <1>2, <1>3, SweptHolds DEF HoldStatus
    <2>2. quotes[q].state # "none" BY <1>3 DEF Inductive, QuotesKnown
    <2>3. \A h \in Quotes : holds'[h] # holds[h] => quotes[h].state # "none"
        BY <1>2, <1>3, <2>2, SweptHolds
    <2>4. surface' = surface /\ quotes' = quotes /\ orders' = orders
        BY DEF ReleaseHold
    <2> QED BY <1>1, <1>7, <2>1, <2>3, <2>4, CommandRows DEF CounterStep, TypeOK
<1> QED BY <1>7, <1>8

\* A command refused after its sweep only frees.
LEMMA SweepHoldsStep ==
    ASSUME Inductive, NEW S \in SUBSET Quotes, SweepHolds(S)
    PROVE  CounterStep /\ RowStep
<1>1. TypeOK /\ Accounting /\ WindowWithinLimit BY DEF Inductive, Accounting
<1>2. S \in SUBSET DueHolds BY DEF SweepHolds
<1>3. holds' = Swept(S) BY DEF SweepHolds
<1>4. ActiveHolds' = ActiveHolds \ S /\ S \in SUBSET ActiveHolds
    BY <1>2, <1>3, SweptHolds DEF ActiveHolds
<1>5. LiveOrders' = (LiveOrders \ {}) \cup {} /\ {} \cap LiveOrders = {}
    BY DEF LiveOrders, SweepHolds
<1>6. CounterStep
    <2>1. quotes' = quotes /\ Move(S, {}, {}, {}) BY DEF SweepHolds
    <2>2. {} \in SUBSET LiveOrders /\ {} \in SUBSET S OBVIOUS
    <2> QED BY <1>1, <1>4, <1>5, <2>1, <2>2, FreeStep
<1>7. RowStep
    <2>1. holds' \in [Quotes -> HoldStatus] BY <1>2, <1>3, SweptHolds
    <2>2. \A h \in Quotes : holds'[h] # holds[h] => quotes[h].state # "none"
        BY <1>2, <1>3, SweptHolds
    <2>3. surface' = surface /\ quotes' = quotes /\ orders' = orders
        BY DEF SweepHolds
    <2> QED BY <1>1, <1>6, <2>1, <2>2, <2>3, CommandRows DEF CounterStep, TypeOK
<1> QED BY <1>6, <1>7

\* The cron job gives back the units of abandoned orders and no others.
LEMMA ExpireStep ==
    ASSUME Inductive, NEW T \in SUBSET Quotes, ExpireAbandonedOrders(T)
    PROVE  CounterStep /\ RowStep
<1>1. TypeOK /\ Accounting /\ WindowWithinLimit BY DEF Inductive, Accounting
<1>2. /\ T \subseteq {q \in Quotes : orders[q] = "unpaid" /\ quotes[q].state = "lapsed"}
      /\ orders' = [q \in Quotes |-> IF q \in T THEN "expired" ELSE orders[q]]
    BY DEF ExpireAbandonedOrders
<1>3. LiveOrders' = (LiveOrders \ T) \cup {} /\ T \in SUBSET LiveOrders
    BY <1>2 DEF LiveOrders
<1>4. ActiveHolds' = ActiveHolds \ {} BY DEF ActiveHolds, ExpireAbandonedOrders
<1>5. CounterStep
    <2>1. quotes' = quotes /\ Move({}, {}, {}, T) BY DEF ExpireAbandonedOrders
    <2>2. {} \in SUBSET ActiveHolds /\ {} \in SUBSET {} /\ {} \cap LiveOrders = {}
        OBVIOUS
    <2> QED BY <1>1, <1>3, <1>4, <2>1, <2>2, FreeStep
<1>6. RowStep
    <2>1. orders' \in [Quotes -> OrderState] BY <1>1, <1>2 DEF TypeOK, OrderState
    <2>2. \A q \in Quotes : orders'[q] # orders[q] => quotes[q].state # "none"
        BY <1>2
    <2>3. surface' = surface /\ quotes' = quotes /\ holds' = holds
        BY DEF ExpireAbandonedOrders
    <2> QED BY <1>1, <1>5, <2>1, <2>2, <2>3, CommandRows DEF CounterStep, TypeOK
<1> QED BY <1>5, <1>6

\* Publication: the windows of the next version are new and nobody's yet.
LEMMA PublishStep ==
    ASSUME Inductive, NEW p \in Policies, NEW shut \in SUBSET Dates, Publish(p, shut)
    PROVE  CounterStep /\ RowStep
<1> DEFINE v == surface.version + 1
<1>1. TypeOK /\ Accounting /\ WindowWithinLimit BY DEF Inductive, Accounting
<1>2. /\ surface.version \in Nat /\ v \in Versions
      /\ p.limit \in Nat /\ p.threshold \in Nat
    BY <1>1, CapacityAssumption DEF Publish, TypeOK, Surface, Versions
<1>3. /\ surface' = [version |-> v, enabled |-> TRUE,
                     limit |-> p.limit, threshold |-> p.threshold]
      /\ windows' = [windows EXCEPT ![v] = [d \in Dates |->
             [held |-> 0, committed |-> 0, limit |-> p.limit,
              threshold |-> p.threshold, open |-> d \notin shut]]]
      /\ ledger' = ledger /\ quotes' = quotes /\ holds' = holds /\ orders' = orders
    BY DEF Publish
<1>4. \A u \in Versions, d \in Dates : windows'[u][d] =
          IF u = v THEN [held |-> 0, committed |-> 0, limit |-> p.limit,
                         threshold |-> p.threshold, open |-> d \notin shut]
                   ELSE windows[u][d]
    BY <1>1, <1>3 DEF TypeOK
<1>5. windows' \in [Versions -> [Dates -> Window]]
    BY <1>1, <1>2, <1>3 DEF TypeOK, Window
<1>6. \A d \in Dates : windows[v][d].held = 0 /\ windows[v][d].committed = 0
    <2> TAKE d \in Dates
    <2>1. \A q \in Quotes : quotes[q].version # v
        <3> TAKE q \in Quotes
        <3>1. quotes[q].version <= surface.version BY DEF Inductive, QuotesKnown
        <3>2. quotes[q].version \in Nat
            BY <1>1, CapacityAssumption DEF TypeOK, Quote, Versions
        <3> QED BY <1>2, <3>1, <3>2
    <2>2. ActiveHolds \cap QuotesFor(v, d) = {} /\ LiveOrders \cap QuotesFor(v, d) = {}
        BY <2>1 DEF QuotesFor
    <2>3. /\ windows[v][d].held = Load(Size, ActiveHolds \cap QuotesFor(v, d))
          /\ windows[v][d].committed = Load(Size, LiveOrders \cap QuotesFor(v, d))
        BY <1>1, <1>2 DEF Accounting, WindowAccounting
    <2> QED BY <2>2, <2>3, LoadEmpty
<1>7. CounterStep
    <2>1. ActiveHolds' = ActiveHolds /\ LiveOrders' = LiveOrders
        BY <1>3 DEF ActiveHolds, LiveOrders
    <2>2. \A u \in Versions, d \in Dates :
             /\ windows'[u][d].held = windows[u][d].held
             /\ windows'[u][d].committed = windows[u][d].committed
             /\ \/ windows'[u][d].limit = windows[u][d].limit
                \/ surface.version < u /\ windows'[u][d].held = 0
                     /\ windows'[u][d].committed = 0
        <3> TAKE u \in Versions, d \in Dates
        <3>1. CASE u = v
            <4> DEFINE new == [held |-> 0, committed |-> 0, limit |-> p.limit,
                               threshold |-> p.threshold, open |-> d \notin shut]
            <4>0. windows'[v][d] = new BY <1>2, <1>4
            <4>1. windows'[v][d].held = 0 /\ windows'[v][d].committed = 0
                BY <4>0
            <4>2. windows[v][d].held = 0 /\ windows[v][d].committed = 0 BY <1>6
            <4>3. surface.version < v BY <1>2
            <4> QED BY <3>1, <4>1, <4>2, <4>3
        <3>2. CASE u # v
            <4>1. windows'[u][d] = windows[u][d] BY <1>4, <3>2
            <4> QED BY <4>1
        <3> QED BY <3>1, <3>2
    <2> QED BY <1>1, <1>3, <1>5, <2>1, <2>2, FrameStep
<1>8. RowStep
    <2>1. surface' \in Surface BY <1>2, <1>3 DEF Surface
    <2>2. QuotesKnown'
        <3> SUFFICES ASSUME NEW q \in Quotes
                     PROVE  /\ quotes'[q].version <= surface'.version
                            /\ quotes'[q].state = "none" =>
                                  /\ quotes'[q].quantity = 0
                                  /\ holds'[q] = "none" /\ orders'[q] = "none"
            BY DEF QuotesKnown
        <3>1. quotes[q].version <= surface.version /\ quotes[q].version \in Nat
            BY <1>1, CapacityAssumption
               DEF Inductive, QuotesKnown, TypeOK, Quote, Versions
        <3> QED BY <1>2, <1>3, <3>1 DEF Inductive, QuotesKnown
    <2>3. PolicyInForce' BY <1>2, <1>3, <1>4 DEF PolicyInForce
    <2>4. surface.version <= surface'.version BY <1>2, <1>3
    <2> QED BY <1>1, <1>3, <2>1, <2>2, <2>3, <2>4 DEF RowStep, TypeOK
<1> QED BY <1>7, <1>8

\* Closing the surface leaves every window and every account as it was.
LEMMA PublishInactiveStep ==
    ASSUME Inductive, NEW p \in Policies, PublishInactive(p)
    PROVE  CounterStep /\ RowStep
<1>1. TypeOK /\ Accounting /\ WindowWithinLimit BY DEF Inductive, Accounting
<1>2. /\ surface.version \in Nat /\ surface.version + 1 \in Versions
      /\ p.limit \in Nat /\ p.threshold \in Nat
    BY <1>1, CapacityAssumption DEF PublishInactive, TypeOK, Surface, Versions
<1>3. /\ surface' = [version |-> surface.version + 1, enabled |-> FALSE,
                     limit |-> p.limit, threshold |-> p.threshold]
      /\ windows' = windows /\ ledger' = ledger /\ quotes' = quotes
      /\ holds' = holds /\ orders' = orders
    BY DEF PublishInactive
<1>4. CounterStep
    <2>1. ActiveHolds' = ActiveHolds /\ LiveOrders' = LiveOrders
        BY <1>3 DEF ActiveHolds, LiveOrders
    <2> QED BY <1>1, <1>3, <2>1, FrameStep DEF TypeOK
<1>5. RowStep
    <2>1. surface' \in Surface BY <1>2, <1>3 DEF Surface
    <2>2. QuotesKnown'
        <3> SUFFICES ASSUME NEW q \in Quotes
                     PROVE  /\ quotes'[q].version <= surface'.version
                            /\ quotes'[q].state = "none" =>
                                  /\ quotes'[q].quantity = 0
                                  /\ holds'[q] = "none" /\ orders'[q] = "none"
            BY DEF QuotesKnown
        <3>1. quotes[q].version <= surface.version /\ quotes[q].version \in Nat
            BY <1>1, CapacityAssumption
               DEF Inductive, QuotesKnown, TypeOK, Quote, Versions
        <3> QED BY <1>2, <1>3, <3>1 DEF Inductive, QuotesKnown
    <2>3. PolicyInForce' BY <1>3 DEF PolicyInForce
    <2>4. surface.version <= surface'.version BY <1>2, <1>3
    <2> QED BY <1>1, <1>3, <2>1, <2>2, <2>3, <2>4 DEF RowStep, TypeOK
<1> QED BY <1>4, <1>5

\* A new quote owns no units yet.
LEMMA CreateQuoteStep ==
    ASSUME Inductive, NEW q \in Quotes, NEW d \in Dates, NEW n \in 1 .. MaxQuantity,
           CreateQuote(q, d, n)
    PROVE  CounterStep /\ RowStep
<1> DEFINE r == IF windows[surface.version][d].limit - Used(ledger[d]) - n
                     <= windows[surface.version][d].threshold
                THEN "hold_required" ELSE "available"
<1>1. TypeOK /\ Accounting /\ WindowWithinLimit BY DEF Inductive, Accounting
<1>2. /\ quotes' = [quotes EXCEPT ![q] =
             [state |-> "fresh", version |-> surface.version, date |-> d,
              quantity |-> n, result |-> r]]
      /\ surface' = surface /\ windows' = windows /\ ledger' = ledger
      /\ holds' = holds /\ orders' = orders
    BY DEF CreateQuote
<1>3. r \in {"available", "hold_required"} OBVIOUS
<1> HIDE DEF r
<1>4. surface.version \in Versions /\ surface.version \in Nat
    BY <1>1, CapacityAssumption DEF TypeOK, Surface, Versions
<1>5. n \in 0 .. MaxQuantity BY CapacityAssumption
<1>6. \A h \in Quotes : h # q => quotes'[h] = quotes[h] BY <1>1, <1>2 DEF TypeOK
<1>7. quotes'[q] = [state |-> "fresh", version |-> surface.version, date |-> d,
                    quantity |-> n, result |-> r]
    BY <1>1, <1>2 DEF TypeOK
<1>8. CounterStep
    <2>1. ActiveHolds' = ActiveHolds /\ LiveOrders' = LiveOrders
        BY <1>2 DEF ActiveHolds, LiveOrders
    <2>2. q \notin ActiveHolds \cup LiveOrders
        <3>1. quotes[q].state = "none" BY DEF CreateQuote
        <3>2. holds[q] = "none" /\ orders[q] = "none"
            BY <3>1 DEF Inductive, QuotesKnown
        <3> QED BY <3>2 DEF ActiveHolds, LiveOrders
    <2>3. \A h \in ActiveHolds \cup LiveOrders : quotes'[h] = quotes[h]
        BY <1>6, <2>2 DEF ActiveHolds, LiveOrders
    <2> QED BY <1>1, <1>2, <2>1, <2>3, FrameStep DEF TypeOK
<1>9. RowStep
    <2>1. quotes' \in [Quotes -> Quote]
        <3>1. quotes'[q] \in Quote
            BY <1>3, <1>4, <1>5, <1>7 DEF Quote, QuoteState
        <3> QED BY <1>1, <1>2, <3>1 DEF TypeOK
    <2>2. QuotesKnown'
        BY <1>2, <1>4, <1>6, <1>7 DEF Inductive, QuotesKnown
    <2>3. PolicyInForce' BY <1>2 DEF Inductive, PolicyInForce
    <2> QED BY <1>1, <1>2, <1>4, <2>1, <2>2, <2>3 DEF RowStep, TypeOK
<1> QED BY <1>8, <1>9

\* The clock and the payment flags leave carts and counters alone.
SameCarts ==
    /\ quotes' \in [Quotes -> Quote]
    /\ \A q \in Quotes : /\ quotes'[q].version = quotes[q].version
                         /\ quotes'[q].date = quotes[q].date
                         /\ quotes'[q].quantity = quotes[q].quantity
                         /\ quotes'[q].state = "none" => quotes[q].state = "none"

SameCounters ==
    /\ windows' \in [Versions -> [Dates -> Window]]
    /\ \A v \in Versions, d \in Dates :
          /\ windows'[v][d].held = windows[v][d].held
          /\ windows'[v][d].committed = windows[v][d].committed
          /\ windows'[v][d].limit = windows[v][d].limit

SameOwners ==
    /\ holds' = holds
    /\ orders' \in [Quotes -> OrderState]
    /\ \A q \in Quotes : orders'[q] # orders[q] =>
           orders[q] \in {"unpaid", "exposed"} /\ orders'[q] \in {"unpaid", "exposed"}

\* A step that touches no counter, and keeps who owns units, keeps the invariant.
LEMMA QuietStep ==
    ASSUME Inductive, surface' = surface, ledger' = ledger,
           SameCarts, SameCounters, SameOwners
    PROVE  CounterStep /\ RowStep
<1>1. TypeOK /\ Accounting /\ WindowWithinLimit BY DEF Inductive, Accounting
<1>2. ActiveHolds' = ActiveHolds BY DEF ActiveHolds, SameOwners
<1>3. LiveOrders' = LiveOrders BY DEF LiveOrders, SameOwners
<1>4. \A q \in ActiveHolds \cup LiveOrders : q \in Quotes
    BY DEF ActiveHolds, LiveOrders
<1>5. CounterStep
    BY <1>1, <1>2, <1>3, <1>4, FrameStep DEF SameCarts, SameCounters
<1>6. QuotesKnown'
    BY DEF QuotesKnown, Inductive, SameCarts, SameOwners
<1>7. PolicyInForce'
    <2>1. surface.version \in Versions BY <1>1 DEF TypeOK, Surface
    <2> QED BY <2>1 DEF PolicyInForce, Inductive, SameCounters
<1>8. surface.version <= surface'.version
    BY <1>1, CapacityAssumption DEF TypeOK, Surface, Versions
<1> QED BY <1>1, <1>5, <1>6, <1>7, <1>8
        DEF RowStep, TypeOK, SameCarts, SameOwners

\* A payment that starts, or settles without money, leaves the order its units.
LEMMA PaymentStep ==
    ASSUME Inductive, NEW q \in Quotes, PaymentExposes(q) \/ PaymentSettlesUnpaid(q)
    PROVE  CounterStep /\ RowStep
<1>1. TypeOK BY DEF Inductive
<1>2. SameCarts BY <1>1 DEF SameCarts, TypeOK, PaymentExposes, PaymentSettlesUnpaid
<1>3. SameCounters
    BY <1>1 DEF SameCounters, TypeOK, PaymentExposes, PaymentSettlesUnpaid
<1>4. SameOwners
    BY <1>1 DEF SameOwners, TypeOK, OrderState, PaymentExposes, PaymentSettlesUnpaid
<1> QED BY <1>2, <1>3, <1>4, QuietStep DEF PaymentExposes, PaymentSettlesUnpaid

\* A deadline that passes frees nothing by itself.
LEMMA DeadlineStep ==
    ASSUME Inductive, NEW q \in Quotes, QuoteExpires(q) \/ OrderLapses(q)
    PROVE  CounterStep /\ RowStep
<1>1. TypeOK BY DEF Inductive
<1>2. SameCarts
    <2> PICK s \in {"expired", "lapsed"} : quotes' = [quotes EXCEPT ![q].state = s]
        BY DEF QuoteExpires, OrderLapses
    <2>1. \A h \in Quotes : quotes'[h] =
              IF h = q THEN [quotes[q] EXCEPT !.state = s] ELSE quotes[h]
        BY <1>1 DEF TypeOK
    <2>2. \A h \in Quotes : quotes[h] \in Quote BY <1>1 DEF TypeOK
    <2>3. [quotes[q] EXCEPT !.state = s] \in Quote
        BY <2>2 DEF Quote, QuoteState
    <2>4. quotes' \in [Quotes -> Quote] BY <1>1, <2>3 DEF TypeOK
    <2> QED BY <2>1, <2>2, <2>4 DEF SameCarts, Quote
<1>3. SameCounters BY <1>1 DEF SameCounters, TypeOK, QuoteExpires, OrderLapses
<1>4. SameOwners BY <1>1 DEF SameOwners, TypeOK, QuoteExpires, OrderLapses
<1> QED BY <1>2, <1>3, <1>4, QuietStep DEF QuoteExpires, OrderLapses

\* A cutoff closes a window and expires its quotes; the units stay counted.
LEMMA CutoffStep ==
    ASSUME Inductive, NEW v \in Versions, NEW d \in Dates, CutoffPasses(v, d)
    PROVE  CounterStep /\ RowStep
<1>1. TypeOK BY DEF Inductive
<1>2. SameCarts
    <2>1. \A h \in Quotes : quotes'[h] = quotes[h]
                              \/ quotes'[h] = [quotes[h] EXCEPT !.state = "expired"]
        BY DEF CutoffPasses
    <2>2. \A h \in Quotes : quotes[h] \in Quote BY <1>1 DEF TypeOK
    <2>3. \A h \in Quotes : quotes'[h] \in Quote
        BY <2>1, <2>2 DEF Quote, QuoteState
    <2>4. quotes' \in [Quotes -> Quote] BY <2>3 DEF CutoffPasses
    <2> QED BY <2>1, <2>2, <2>4 DEF SameCarts, Quote
<1>3. SameCounters
    <2>1. windows' = [windows EXCEPT ![v][d].open = FALSE] BY DEF CutoffPasses
    <2>2. \A u \in Versions, e \in Dates : windows'[u][e] =
              IF u = v /\ e = d THEN [windows[v][d] EXCEPT !.open = FALSE]
                                ELSE windows[u][e]
        BY <1>1, <2>1 DEF TypeOK
    <2>3. \A u \in Versions, e \in Dates : windows[u][e] \in Window
        BY <1>1 DEF TypeOK
    <2>4. [windows[v][d] EXCEPT !.open = FALSE] \in Window BY <2>3 DEF Window
    <2>5. windows' \in [Versions -> [Dates -> Window]]
        BY <1>1, <2>1, <2>4 DEF TypeOK
    <2> QED BY <2>2, <2>3, <2>5 DEF SameCounters, Window
<1>4. SameOwners BY <1>1 DEF SameOwners, TypeOK, CutoffPasses
<1> QED BY <1>2, <1>3, <1>4, QuietStep DEF CutoffPasses

\* Steps of other parts of the system.
LEMMA StutterStep ==
    ASSUME Inductive, UNCHANGED vars
    PROVE  CounterStep /\ RowStep
<1>1. TypeOK BY DEF Inductive
<1>2. SameCarts BY <1>1 DEF SameCarts, TypeOK, vars
<1>3. SameCounters BY <1>1 DEF SameCounters, TypeOK, vars
<1>4. SameOwners BY <1>1 DEF SameOwners, TypeOK, vars
<1> QED BY <1>2, <1>3, <1>4, QuietStep DEF vars

\* Every step of the specification is one of them.
LEMMA NextStep ==
    ASSUME Inductive, [Next]_vars
    PROVE  CounterStep /\ RowStep
<1>1. ASSUME NEW p \in Policies, NEW shut \in SUBSET Dates, Publish(p, shut)
      PROVE  CounterStep /\ RowStep
    BY <1>1, PublishStep
<1>2. ASSUME NEW p \in Policies, PublishInactive(p)
      PROVE  CounterStep /\ RowStep
    BY <1>2, PublishInactiveStep
<1>3. ASSUME NEW q \in Quotes, NEW d \in Dates, NEW n \in 1 .. MaxQuantity,
             CreateQuote(q, d, n)
      PROVE  CounterStep /\ RowStep
    BY <1>3, CreateQuoteStep
<1>4. ASSUME NEW q \in Quotes, NEW S \in SUBSET Quotes, CreateHold(q, S)
      PROVE  CounterStep /\ RowStep
    BY <1>4, CreateHoldStep
<1>5. ASSUME NEW q \in Quotes, NEW S \in SUBSET Quotes, ReleaseHold(q, S)
      PROVE  CounterStep /\ RowStep
    BY <1>5, ReleaseHoldStep
<1>6. ASSUME NEW S \in SUBSET Quotes, SweepHolds(S)
      PROVE  CounterStep /\ RowStep
    BY <1>6, SweepHoldsStep
<1>7. ASSUME NEW q \in Quotes, NEW S \in SUBSET Quotes, OrderFromHold(q, S)
      PROVE  CounterStep /\ RowStep
    BY <1>7, OrderFromHoldStep
<1>8. ASSUME NEW q \in Quotes, NEW S \in SUBSET Quotes, OrderDirect(q, S)
      PROVE  CounterStep /\ RowStep
    BY <1>8, OrderDirectStep
<1>9. ASSUME NEW T \in SUBSET Quotes, ExpireAbandonedOrders(T)
      PROVE  CounterStep /\ RowStep
    BY <1>9, ExpireStep
<1>10. ASSUME NEW q \in Quotes, PaymentExposes(q) \/ PaymentSettlesUnpaid(q)
       PROVE  CounterStep /\ RowStep
    BY <1>10, PaymentStep
<1>11. ASSUME NEW q \in Quotes, QuoteExpires(q) \/ OrderLapses(q)
       PROVE  CounterStep /\ RowStep
    BY <1>11, DeadlineStep
<1>12. ASSUME NEW v \in Versions, NEW d \in Dates, CutoffPasses(v, d)
       PROVE  CounterStep /\ RowStep
    BY <1>12, CutoffStep
<1>13. CASE UNCHANGED vars BY <1>13, StutterStep
<1> QED BY <1>1, <1>2, <1>3, <1>4, <1>5, <1>6, <1>7, <1>8, <1>9, <1>10,
           <1>11, <1>12, <1>13 DEF Next

-----------------------------------------------------------------------------
(* The invariant *)

\* Under the accounts, what a date promised is what its ledger row counts.
LEMMA PromisedIsUsed ==
    ASSUME LedgerAccounting, NEW d \in Dates
    PROVE  Promised(d) = Used(ledger[d])
BY DEF LedgerAccounting, Promised, Used

\* Before the first publication nothing is counted.
LEMMA InitInductive ==
    ASSUME Init
    PROVE  Inductive
<1>1. TypeOK
    <2>1. surface \in Surface
        BY CapacityAssumption DEF Init, Surface, Versions
    <2>2. windows \in [Versions -> [Dates -> Window]]
        BY DEF Init, NoWindow, Window
    <2>3. ledger \in [Dates -> Counter] BY DEF Init, Counter
    <2>4. quotes \in [Quotes -> Quote]
        <3>1. NoQuote \in Quote
            BY CapacityAssumption DEF NoQuote, Quote, QuoteState, Versions
        <3> QED BY <3>1 DEF Init
    <2>5. holds \in [Quotes -> HoldStatus] BY DEF Init, HoldStatus
    <2>6. orders \in [Quotes -> OrderState] BY DEF Init, OrderState
    <2> QED BY <2>1, <2>2, <2>3, <2>4, <2>5, <2>6 DEF TypeOK
<1>2. ActiveHolds = {} /\ LiveOrders = {} BY DEF Init, ActiveHolds, LiveOrders
<1>3. WindowAccounting
    <2> SUFFICES ASSUME NEW v \in Versions, NEW d \in Dates
                 PROVE  /\ windows[v][d].held = Load(Size, {} \cap QuotesFor(v, d))
                        /\ windows[v][d].committed = Load(Size, {} \cap QuotesFor(v, d))
        BY <1>2 DEF WindowAccounting
    <2>1. {} \cap QuotesFor(v, d) = {} OBVIOUS
    <2>2. windows[v][d] = NoWindow BY DEF Init
    <2> QED BY <2>1, <2>2, LoadEmpty DEF NoWindow
<1>4. LedgerAccounting
    <2> SUFFICES ASSUME NEW d \in Dates
                 PROVE  /\ ledger[d].held = Load(Size, {} \cap QuotesOn(d))
                        /\ ledger[d].committed = Load(Size, {} \cap QuotesOn(d))
        BY <1>2 DEF LedgerAccounting
    <2>1. {} \cap QuotesOn(d) = {} OBVIOUS
    <2>2. ledger[d] = [held |-> 0, committed |-> 0] BY DEF Init
    <2> QED BY <2>1, <2>2, LoadEmpty
<1>5. WindowWithinLimit BY DEF Init, NoWindow, WindowWithinLimit, Used
<1>6. NoOversell
    <2> SUFFICES ASSUME NEW d \in Dates PROVE Promised(d) = 0
        BY DEF NoOversell
    <2>1. ledger[d] = [held |-> 0, committed |-> 0] BY DEF Init
    <2> QED BY <1>4, <2>1, PromisedIsUsed DEF Used
<1>7. QuotesKnown BY DEF Init, NoQuote, QuotesKnown
<1>8. PolicyInForce BY DEF Init, PolicyInForce
<1> QED BY <1>1, <1>3, <1>4, <1>5, <1>6, <1>7, <1>8 DEF Inductive

\* A date that gains units has a witness, the published limit; one that does
\* not keeps the limit it had.
LEMMA StepNoOversell ==
    ASSUME Inductive, CounterStep, RowStep
    PROVE  NoOversell'
<1> SUFFICES ASSUME NEW d \in Dates, Promised(d)' > 0
             PROVE  \E v \in 1 .. surface'.version :
                        Promised(d)' <= windows'[v][d].limit
    BY DEF NoOversell
<1>1. TypeOK BY DEF Inductive
<1>2. /\ surface.version \in Nat /\ surface'.version \in Nat
      /\ surface.version <= surface'.version /\ surface.version \in Versions
    BY <1>1, CapacityAssumption DEF TypeOK, RowStep, Surface, Versions
<1>3. \A v \in 1 .. surface.version : v \in Versions /\ v \in 1 .. surface'.version
                                        /\ windows'[v][d].limit = windows[v][d].limit
                                        /\ windows[v][d].limit \in Nat
    <2> TAKE v \in 1 .. surface.version
    <2>1. v \in Versions BY <1>2, CapacityAssumption DEF Versions
    <2>2. v \in 1 .. surface'.version BY <1>2
    <2>3. windows[v][d] \in Window BY <1>1, <2>1 DEF TypeOK
    <2> QED BY <2>1, <2>2, <2>3 DEF CounterStep, WindowStep, Window
<1>4. Promised(d) = Used(ledger[d]) BY PromisedIsUsed DEF Inductive
<1>5. Promised(d)' = Used(ledger'[d])
    BY DEF CounterStep, Accounting, LedgerAccounting, Promised, Used
<1>6. Used(ledger[d]) \in Nat /\ Used(ledger'[d]) \in Nat
    BY <1>1 DEF CounterStep, TypeOK, Counter, Used
<1>7. CASE Used(ledger'[d]) <= Used(ledger[d])
    <2>1. Promised(d) > 0 BY <1>4, <1>5, <1>6, <1>7
    <2>2. PICK v \in 1 .. surface.version : Promised(d) <= windows[v][d].limit
        BY <2>1 DEF Inductive, NoOversell
    <2>3. Promised(d)' <= windows'[v][d].limit
        BY <1>3, <1>4, <1>5, <1>6, <1>7, <2>2
    <2> QED BY <1>3, <2>3
<1>8. CASE surface.enabled /\ Used(ledger'[d]) <= surface.limit
    <2>1. 0 < surface.version /\ windows[surface.version][d].limit = surface.limit
        BY <1>8 DEF Inductive, PolicyInForce
    <2>2. surface.version \in 1 .. surface.version BY <1>2, <2>1
    <2> QED BY <1>3, <1>5, <1>8, <2>1, <2>2
<1> QED BY <1>7, <1>8 DEF CounterStep, LedgerStep

\* The inductive invariant holds in every reachable state.
THEOREM InductiveInvariant == Spec => []Inductive
<1>1. Init => Inductive BY InitInductive
<1>2. Inductive /\ [Next]_vars => Inductive'
    <2> SUFFICES ASSUME Inductive, [Next]_vars
                 PROVE  Inductive'
        OBVIOUS
    <2>1. CounterStep /\ RowStep BY NextStep
    <2>2. NoOversell' BY <2>1, StepNoOversell
    <2>3. TypeOK' BY <2>1 DEF CounterStep, RowStep, TypeOK
    <2> QED BY <2>1, <2>2, <2>3 DEF CounterStep, RowStep, Accounting, Inductive
<1> QED BY <1>1, <1>2, PTL DEF Spec

-----------------------------------------------------------------------------
(* What follows from it *)

\* Every row stays in its type: no counter goes below zero.
THEOREM TypeCorrect == Spec => []TypeOK
<1>1. Inductive => TypeOK BY DEF Inductive
<1> QED BY <1>1, InductiveInvariant, PTL

\* The counters of a window are the carts made for it.
THEOREM WindowsBalance == Spec => []WindowAccounting
<1>1. Inductive => WindowAccounting BY DEF Inductive
<1> QED BY <1>1, InductiveInvariant, PTL

\* The ledger of a date is the carts of every policy version on it.
THEOREM LedgerBalances == Spec => []LedgerAccounting
<1>1. Inductive => LedgerAccounting BY DEF Inductive
<1> QED BY <1>1, InductiveInvariant, PTL

\* No command is aborted by the CHECK of fulfillment_windows.
THEOREM WindowsFit == Spec => []WindowWithinLimit
<1>1. Inductive => WindowWithinLimit BY DEF Inductive
<1> QED BY <1>1, InductiveInvariant, PTL

\* A date is never promised beyond every limit published for it.
THEOREM NeverOversold == Spec => []NoOversell
<1>1. Inductive => NoOversell BY DEF Inductive
<1> QED BY <1>1, InductiveInvariant, PTL

\* The storefront lists as orderable what a quote would accept: on a date the
\* ledger counts at least what the current window counts.
THEOREM ListedMeansQuotable == Spec => []ListedIsQuotable
<1>1. ASSUME Inductive, NEW d \in Dates
      PROVE  Availability(d) \in {"available", "limited"} <=> Quotable(d, 1)
    <2> DEFINE v == surface.version
               w == windows[v][d]
               here == QuotesFor(v, d)
               H == ActiveHolds \cap here
               L == LiveOrders \cap here
               HD == ActiveHolds \cap QuotesOn(d)
               LD == LiveOrders \cap QuotesOn(d)
    <2>1. TypeOK /\ v \in Versions BY <1>1 DEF Inductive, TypeOK, Surface
    <2>2. w \in Window /\ ledger[d] \in Counter BY <2>1 DEF TypeOK
    <2>3. /\ w.held = Load(Size, H) /\ w.committed = Load(Size, L)
          /\ ledger[d].held = Load(Size, HD) /\ ledger[d].committed = Load(Size, LD)
        BY <1>1, <2>1 DEF Inductive, WindowAccounting, LedgerAccounting
    <2>4. /\ HD \in SUBSET Quotes /\ LD \in SUBSET Quotes
          /\ H \subseteq HD /\ L \subseteq LD
        BY DEF ActiveHolds, LiveOrders, QuotesFor, QuotesOn
    <2>5. /\ IsFiniteSet(HD) /\ IsFiniteSet(LD)
          /\ \A q \in HD : Size[q] \in Nat
          /\ \A q \in LD : Size[q] \in Nat
        BY <2>1, <2>4, Carts
    <2> HIDE DEF H, L, HD, LD
    <2>6. Load(Size, H) <= Load(Size, HD) /\ Load(Size, L) <= Load(Size, LD)
        BY ONLY <2>4, <2>5, LoadDifference
    <2>7. /\ Used(w) <= Used(ledger[d])
          /\ Used(w) \in Nat /\ Used(ledger[d]) \in Nat /\ w.limit \in Nat
        BY <2>2, <2>3, <2>6 DEF Used, Window, Counter
    <2> HIDE DEF w
    <2> QED BY <2>7 DEF Availability, Quotable, w
<1>2. Inductive => ListedIsQuotable BY <1>1 DEF ListedIsQuotable
<1> QED BY <1>2, InductiveInvariant, PTL

\* Units are added to a date only within the limit published at that moment.
THEOREM PublishedLimitKept == Spec => PublishedLimitRespected
<1> DEFINE Step == \A d \in Dates : Promised(d)' > Promised(d) =>
                       surface.enabled /\ Promised(d)' <= surface.limit
<1>1. ASSUME Inductive, [Next]_vars
      PROVE  Step
    <2> SUFFICES ASSUME NEW d \in Dates, Promised(d)' > Promised(d)
                 PROVE  surface.enabled /\ Promised(d)' <= surface.limit
        OBVIOUS
    <2>1. CounterStep BY <1>1, NextStep
    <2>2. Promised(d) = Used(ledger[d]) BY <1>1, PromisedIsUsed DEF Inductive
    <2>3. Promised(d)' = Used(ledger'[d])
        BY <2>1 DEF CounterStep, Accounting, LedgerAccounting, Promised, Used
    <2>4. Used(ledger[d]) \in Nat /\ Used(ledger'[d]) \in Nat
        BY <1>1, <2>1 DEF Inductive, CounterStep, TypeOK, Counter, Used
    <2> QED BY <2>1, <2>2, <2>3, <2>4 DEF CounterStep, LedgerStep
<1>2. Inductive /\ [Next]_vars => [Step]_vars BY <1>1
<1> QED BY <1>2, InductiveInvariant, PTL DEF Spec, PublishedLimitRespected

\* Windows of superseded policy versions only drain.
THEOREM SupersededDrain == Spec => SupersededWindowsDrain
<1> DEFINE Step == \A v \in Versions, d \in Dates : v < surface.version =>
                       /\ windows'[v][d].limit = windows[v][d].limit
                       /\ Used(windows'[v][d]) <= Used(windows[v][d])
<1>1. ASSUME Inductive, [Next]_vars
      PROVE  Step
    <2> SUFFICES ASSUME NEW v \in Versions, NEW d \in Dates, v < surface.version
                 PROVE  /\ windows'[v][d].limit = windows[v][d].limit
                        /\ Used(windows'[v][d]) <= Used(windows[v][d])
        OBVIOUS
    <2>1. WindowStep BY <1>1, NextStep DEF CounterStep
    <2>2. v \in Nat /\ surface.version \in Nat
        BY <1>1, CapacityAssumption DEF Inductive, TypeOK, Surface, Versions
    <2> QED BY <2>1, <2>2 DEF WindowStep
<1>2. Inductive /\ [Next]_vars => [Step]_vars BY <1>1
<1> QED BY <1>2, InductiveInvariant, PTL DEF Spec, SupersededWindowsDrain

\* A hold leaves "active" once: swept when its quote is over, released, or
\* consumed by the order made in the same transaction.
THEOREM HoldsEndOnce == Spec => HoldFate
<1> DEFINE Fate(q) ==
               holds[q] # "none" /\ holds'[q] # holds[q] =>
                   /\ holds[q] = "active"
                   /\ holds'[q] = "expired" => quotes[q].state # "fresh"
                   /\ holds'[q] = "consumed" <=> orders[q] = "none" /\ orders'[q] # "none"
           Step == \A q \in Quotes : Fate(q)
<1>1. ASSUME Inductive, [Next]_vars
      PROVE  Step
    <2> SUFFICES ASSUME NEW q \in Quotes
                 PROVE  Fate(q)
        OBVIOUS
    <2>0. TypeOK BY <1>1 DEF Inductive
    \* A swept hold was due, and its order, if it has one, is not new.
    <2>1. ASSUME NEW S \in SUBSET DueHolds, holds'[q] = Swept(S)[q],
                 orders'[q] = orders[q]
          PROVE  Fate(q)
        BY <2>1 DEF Swept, DueHolds, ActiveHolds
    <2>2. ASSUME NEW p \in Quotes, NEW S \in SUBSET Quotes, CreateHold(p, S)
          PROVE  Fate(q)
        <3>1. CASE q = p BY <2>0, <2>2, <3>1 DEF CreateHold
        <3>2. CASE q # p
            BY <2>1, <2>2, <3>2 DEF CreateHold
        <3> QED BY <3>1, <3>2
    <2>3. ASSUME NEW p \in Quotes, NEW S \in SUBSET Quotes, ReleaseHold(p, S)
          PROVE  Fate(q)
        <3>1. CASE q = p
            <4>1. holds'[q] = "released" /\ holds[q] = "active" /\ orders'[q] = orders[q]
                BY <2>0, <2>3, <3>1 DEF ReleaseHold, Swept
            <4> QED BY <4>1
        <3>2. CASE q # p
            BY <2>1, <2>3, <3>2 DEF ReleaseHold
        <3> QED BY <3>1, <3>2
    <2>4. ASSUME NEW S \in SUBSET Quotes, SweepHolds(S)
          PROVE  Fate(q)
        BY <2>1, <2>4 DEF SweepHolds
    <2>5. ASSUME NEW p \in Quotes, NEW S \in SUBSET Quotes, OrderFromHold(p, S)
          PROVE  Fate(q)
        <3>1. CASE q = p
            <4>1. /\ holds'[q] = "consumed" /\ holds[q] = "active"
                  /\ orders[q] = "none" /\ orders'[q] = "unpaid"
                BY <2>0, <2>5, <3>1 DEF OrderFromHold, Swept, TypeOK
            <4> QED BY <4>1
        <3>2. CASE q # p
            BY <2>0, <2>1, <2>5, <3>2 DEF OrderFromHold, TypeOK
        <3> QED BY <3>1, <3>2
    <2>6. ASSUME NEW p \in Quotes, NEW S \in SUBSET Quotes, OrderDirect(p, S)
          PROVE  Fate(q)
        <3>1. CASE q = p
            <4>1. quotes[q].state = "fresh" /\ holds' = Swept(S) /\ S \subseteq DueHolds
                BY <2>6, <3>1 DEF OrderDirect, Admissible
            <4>2. holds'[q] = holds[q] BY <4>1 DEF Swept, DueHolds
            <4> QED BY <4>2
        <3>2. CASE q # p
            BY <2>0, <2>1, <2>6, <3>2 DEF OrderDirect, TypeOK
        <3> QED BY <3>1, <3>2
    <2>7. CASE holds' = holds BY <2>7
    <2> QED
        BY <1>1, <2>2, <2>3, <2>4, <2>5, <2>6, <2>7
           DEF Next, Publish, PublishInactive, CreateQuote, PaymentExposes,
               PaymentSettlesUnpaid, ExpireAbandonedOrders, QuoteExpires,
               OrderLapses, CutoffPasses, vars
<1>2. Inductive /\ [Next]_vars => [Step]_vars BY <1>1
<1> QED BY <1>2, InductiveInvariant, PTL DEF Spec, HoldFate
=============================================================================
