------------------------------- MODULE GpuRack -------------------------------
(***************************************************************************)
(* web-ui/src/components/GpuRack.tsx: how a node is drawn.  Both the arena *)
(* and the dashboard hand it their nodes.  A node is a record whose        *)
(* optional fields may be missing; a ratio is a pair <<num, den>> with     *)
(* den > 0.  Nobody passes onSelect, so a sled reacts to nothing.          *)
(***************************************************************************)
EXTENDS Integers

Field(n, name, default) == IF name \in DOMAIN n THEN n[name] ELSE default

Least(a, b) == IF a <= b THEN a ELSE b
Most(a, b) == IF a >= b THEN a ELSE b

\* Math.round of num / den: halves go up.
Rounded(num, den) == (2 * num + den) \div (2 * den)

\* Math.max(0, Math.min(1, ratio)), in whole percent as it is written out.
Percent(ratio) == Rounded(100 * Least(Most(0, ratio[1]), ratio[2]), ratio[2])

(***************************************************************************)
(* A sled: the two meters, its marks, and the number of cells lit ("on")   *)
(* and owed ("debt"), which are drawn side by side from the first cell.    *)
(***************************************************************************)
Sled(n) ==
  LET cells == Field(n, "totalBlocks", 16)
      warm  == Most(0, Least(cells, n.warmBlocks))
      miss  == Most(0, Least(cells - warm, Field(n, "missBlocks", 0)))
      hit   == Field(n, "selected", FALSE)
      home  == Field(n, "home", FALSE)
      down  == ~n.healthy
  IN  [id |-> n.id, cells |-> cells, on |-> warm, debt |-> miss,
       fill |-> Percent(n.fill),
       queue |-> Percent(Field(n, "queue", <<Field(n, "inflight", 0), 8>>)),
       hit |-> hit, home |-> home, wrong |-> hit /\ ~home /\ miss > 0,
       down |-> down,
       tag |-> IF down THEN "offline" ELSE IF hit THEN "reserved" ELSE "detail"]

(***************************************************************************)
(* The colour of each cell.                                                *)
(***************************************************************************)
Heat(s) ==
  [i \in 0..(s.cells - 1) |->
     IF i < s.on THEN "on" ELSE IF i < s.on + s.debt THEN "debt" ELSE "off"]

=============================================================================
