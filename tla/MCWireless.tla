----------------------------- MODULE MCWireless -----------------------------
EXTENDS Wireless

CONSTANTS home, cafe, r1, wifinet0, upstream_home, upstream_cafe

(* One radio; the café is the stronger network and a TollGate.             *)
OneRadio == [s \in {home, cafe} |-> r1]
HomeIsWeaker == [s \in {home, cafe} |-> IF s = home THEN -70 ELSE -50]
DerivedNames == [s \in {home, cafe} |-> IF s = home THEN upstream_home ELSE upstream_cafe]

DefaultFloor == -85

Section(n, s, d) == [name |-> n, ssid |-> s, radio |-> r1, disabled |-> d]

(* A router set up by hand, and one the daemon has since added to.         *)
Configs ==
    {<<Section(wifinet0, home, FALSE)>>,
     <<Section(wifinet0, home, FALSE), Section(upstream_home, home, TRUE),
       Section(upstream_cafe, cafe, TRUE)>>}
=============================================================================
