--------------------------- MODULE MCJsScopeLock ---------------------------
(* Two prototypes, a and b, with a scope each, and an object, child, that  *)
(* shares the scope of a at first.  Three contexts are needed for a scope  *)
(* to be shared because its owner waits for the claimant.                  *)
EXTENDS JsScopeLock, TLC

CONSTANTS c1, c2, c3, a, b, child

MCProto == (a :> None) @@ (b :> None) @@ (child :> a)

Context(uses, does) == [uses |-> uses, does |-> does]
NoContext == Context({}, {})

ThreeLockers ==
  (c1 :> Context({a, b}, {})) @@ (c2 :> Context({a, b}, {"gc"}))
    @@ (c3 :> Context({a}, {}))
TwoCollectors ==
  (c1 :> Context({a}, {"gc", "yield"})) @@ (c2 :> Context({a}, {"gc"}))
    @@ (c3 :> NoContext)
MovingObject ==
  (c1 :> Context({child}, {"proto"}))
    @@ (c2 :> Context({child, b}, {"mutate"})) @@ (c3 :> NoContext)
TwoSetters ==
  (c1 :> Context({child}, {"proto"})) @@ (c2 :> Context({b}, {"proto"}))
    @@ (c3 :> NoContext)

Cycles ==
  (c1 :> Context({a}, {"proto"})) @@ (c2 :> Context({b}, {"proto"}))
    @@ (c3 :> NoContext)

SetterPrograms == {MovingObject}
MCPrograms ==
  {ThreeLockers, TwoCollectors, MovingObject, TwoSetters, Cycles}
=============================================================================
