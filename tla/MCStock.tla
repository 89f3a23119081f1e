------------------------------ MODULE MCStock ------------------------------
EXTENDS Stock, TLC

CONSTANTS brick, cement, yard, site, po

M(kind, item, at, to, qty, price, lot) ==
  [kind |-> kind, item |-> item, at |-> at, to |-> to, qty |-> qty, price |-> price,
   lot |-> lot, line |-> 0]

Alike == Permutations(Workers)

MCMoves == {
  M("goods_in", brick, yard, yard, 1, 1, None),
  M("issue", brick, yard, yard, 1, 0, None),
  M("transfer", brick, yard, site, 1, 0, None),
  M("adjust", brick, yard, yard, -1, 0, None),
  M("goods_in", cement, yard, yard, 1, 2, 1),
  M("goods_in", cement, yard, yard, 2, 1, 2),
  M("issue", cement, yard, yard, 2, 0, None),
  M("issue", cement, yard, yard, 1, 0, 2)}

MCOrderLines == [o \in Orders |-> {
  [M("goods_in", brick, yard, yard, 1, 4, None) EXCEPT !.line = 1],
  [M("goods_in", brick, yard, yard, 1, 2, None) EXCEPT !.line = 2]}]
=============================================================================
