----------------------------- MODULE BoardState -----------------------------
(***************************************************************************)
(* The rows of one board that the card services read and write, as the      *)
(* database has them committed: cards, columns, swimlanes, and whether the  *)
(* board row itself is still there.  Titles, weights, labels and the like   *)
(* are left out.  Row ids are primary keys: numbers, never reused.          *)
(***************************************************************************)
EXTENDS Naturals, FiniteSets

CONSTANTS
    Cards, Columns, Lanes,   \* ids of rows that exist now or may yet be created
    ColumnLimit,             \* hard WIP limit, a function on the limited columns
    LaneLimit,               \* hard WIP limit, a function on the limited lanes
    Counted,                 \* Counted[l]: the columns whose cards lane l counts
    InitCards, InitColumns, InitLanes   \* what the board may start with

VARIABLES card, cols, lanes, up

contents == <<card, cols, lanes, up>>

CardRecord == [ st : {"unborn", "live", "gone"}, col : Columns, lane : Lanes,
                archived : BOOLEAN, ver : Nat ]

\* What the rows hold before the requests: every card that exists is housed.
ASSUME IdsAssumption ==
    Cards \subseteq Nat /\ Columns \subseteq Nat /\ Lanes \subseteq Nat
ASSUME FiniteAssumption == IsFiniteSet(Cards)
ASSUME LimitsAssumption ==
    /\ DOMAIN ColumnLimit \subseteq Columns /\ ColumnLimit \in [DOMAIN ColumnLimit -> Nat]
    /\ DOMAIN LaneLimit \subseteq Lanes /\ LaneLimit \in [DOMAIN LaneLimit -> Nat]
    /\ Counted \in [Lanes -> SUBSET Columns]
ASSUME InitAssumption ==
    /\ InitColumns \subseteq Columns /\ InitLanes \subseteq Lanes
    /\ \A rows \in InitCards :
          /\ rows \in [Cards -> CardRecord]
          /\ \A c \in Cards : rows[c].st = "live" =>
                rows[c].col \in InitColumns /\ rows[c].lane \in InitLanes

Live == {c \in Cards : card[c].st = "live"}

InColumn(k)  == {c \in Live : card[c].col = k}
InLane(l)    == {c \in Live : card[c].lane = l}
InCell(k, l) == InColumn(k) \cap InLane(l)

\* The active cards that count against a limit, card c left out
\* (_column_constraints and _swimlane_constraints exclude the placed card).
ColumnLoad(k, c) == Cardinality({d \in InColumn(k) \ {c} : ~card[d].archived})
LaneLoad(l, c)   == Cardinality({d \in InLane(l) \ {c} :
                                    ~card[d].archived /\ card[d].col \in Counted[l]})

RoomInColumn(k, c) == k \in DOMAIN ColumnLimit => ColumnLoad(k, c) < ColumnLimit[k]
RoomInLane(l, c)   == l \in DOMAIN LaneLimit => LaneLoad(l, c) < LaneLimit[l]

ContentsTypeOK ==
    /\ card \in [Cards -> CardRecord]
    /\ cols \subseteq Columns
    /\ lanes \subseteq Lanes
    /\ up \in BOOLEAN

\* Every live card is in a live column and a live swimlane of a live board
\* (the foreign keys of Card).
Housed == \A c \in Live : up /\ card[c].col \in cols /\ card[c].lane \in lanes
=============================================================================
