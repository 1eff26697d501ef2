--------------------------- MODULE MCHidEnumerate ---------------------------
(* Instances of HidEnumerate for TLC: t1 is a TREZOR with a debug link, t2  *)
(* one without, and there are a keyboard and a unit that is forbidden.      *)
EXTENDS HidEnumerate

CONSTANTS t1, t2, keyboard, forbidden

AllUnits == {t1, t2, keyboard, forbidden}
TestInterfaces == [u \in AllUnits |-> IF u = t1 THEN {0, 1} ELSE {0}]
TestVendors == [u \in AllUnits |-> IF u = keyboard THEN 7 ELSE 1]
TestProducts == [u \in AllUnits |-> 1]
TestSerials == [u \in AllUnits |->
  CASE u = t1 -> "1" [] u = t2 -> "2" [] OTHER -> NULL]
OneForbidden == {forbidden}
AllOrders == {<<<<t1, 0>>, <<t1, 1>>, <<forbidden, 0>>, <<keyboard, 0>>, <<t2, 0>>>>,
              <<<<forbidden, 0>>, <<keyboard, 0>>, <<t2, 0>>, <<t1, 0>>, <<t1, 1>>>>}
TestOrders == [S \in SUBSET AllUnits |->
  {SelectSeq(order, LAMBDA x : x[1] \in S) : order \in AllOrders}]

\* Every TREZOR, and t2 in particular.
TestKnown == {[vendor |-> 1, product |-> 1, serial |-> Unset],
              [vendor |-> Unset, product |-> Unset, serial |-> "2"]}
=============================================================================
