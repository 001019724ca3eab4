----------------------------- MODULE MCSessions -----------------------------
(* A small instance of Sessions for TLC: a development service that goes to  *)
(* production, with a secret of its own or still accepting the old one, and  *)
(* a rotation there.                                                         *)
EXTENDS Sessions, TLC

CONSTANTS dev, k1, k2

Setting(production, secret, previous) ==
    [production |-> production, secret |-> secret, previous |-> previous]

MCSettings == {Setting(FALSE, dev, NoSecret), Setting(TRUE, k1, dev),
               Setting(TRUE, k1, NoSecret), Setting(TRUE, k2, k1),
               Setting(TRUE, k2, NoSecret)}
=============================================================================
