---------------------------- MODULE PinBarChart -----------------------------
(***************************************************************************)
(* What the scripts that draw trades have in common: the candles around a   *)
(* trade, and the trades that are worth a picture.                          *)
(***************************************************************************)
EXTENDS PinBarCommon

CONSTANTS BARS_BEFORE_ENTRY, BARS_AFTER_ENTRY

VARIABLE shown          \* the trades the script finds for itself

ExitBar(t) == IF t.reason = "none" THEN Len(series) - 1 ELSE t.exit

(* Mutant: the picture ends the bars after the entry. *)
PictureOfEntry(t) ==
    LET from == IF t.entry < BARS_BEFORE_ENTRY
                   THEN 0 ELSE t.entry - BARS_BEFORE_ENTRY
        to == IF t.entry + BARS_AFTER_ENTRY > Len(series) - 1
                 THEN Len(series) - 1 ELSE t.entry + BARS_AFTER_ENTRY
    IN  [from |-> from, bars |-> to - from + 1,
         entry |-> t.entry - from, exit |-> ExitBar(t) - from]

(* The first and the last bar of the picture, and the two marks within it.  *)
Picture(t) ==
    LET from == IF t.entry < BARS_BEFORE_ENTRY
                   THEN 0 ELSE t.entry - BARS_BEFORE_ENTRY
        to == IF ExitBar(t) + BARS_AFTER_ENTRY > Len(series) - 1
                 THEN Len(series) - 1 ELSE ExitBar(t) + BARS_AFTER_ENTRY
    IN  [from |-> from, bars |-> to - from + 1,
         entry |-> t.entry - from, exit |-> ExitBar(t) - from]

IsClosed(t) == t.reason # "none"

(* pnl_pct, in hundredths of a percent. *)
Pnl(t) == ((t.exit_price - t.price) * 10) \div (t.price \div 1000)

PaysMore(t, u) == Pnl(t) > Pnl(u)

OfTrigger(found, trigger) ==
    {k \in 1 .. Len(found) :
        IsClosed(found[k]) /\ found[k].signal.trigger = trigger}

(* The two best and the two worst of these trades, which may be the same.   *)
BestAndWorst(found, of) ==
    LET Before(k, Ahead(_, _)) ==
            {j \in of : \/ Ahead(found[j], found[k])
                        \/ j < k /\ ~Ahead(found[k], found[j])}
        Worse(t, u) == PaysMore(u, t)
    IN  {k \in of : \/ Cardinality(Before(k, PaysMore)) < 2
                    \/ Cardinality(Before(k, Worse)) < 2}

(* The marks of the pictures lie within them, the exit after the entry, and *)
(* the entry is on the candle the trade was entered at the close of         *)
(* (plot_trade).                                                            *)
MarksInPicture(drawn, PlotTrade(_)) ==
    \A t \in drawn :
        LET p == PlotTrade(t)
        IN  /\ 0 <= p.entry /\ p.entry <= p.exit /\ p.exit < p.bars
            /\ IsClosed(t) => p.entry < p.exit
            /\ series[p.from + p.entry + 1].c * 1000 = t.price
=============================================================================
