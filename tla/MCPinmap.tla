------------------------------ MODULE MCPinmap ------------------------------
(***************************************************************************)
(* Instances of Pinmap for TLC: a small chip, and every layout of it.      *)
(***************************************************************************)
EXTENDS Pinmap, TLC

CONSTANTS loop, web, sda, scl, tx, rx, beyond, none

\* GPIO 2 is input only, GPIO 3 belongs to the flash, GPIO 4 to the PSRAM.
SmallChip == (0 :> {"valid", "in", "out"}) @@ (1 :> {"valid", "in", "out"})
             @@ (2 :> {"valid", "in"}) @@ (3 :> {"valid", "in", "out", "flash"})
             @@ (4 :> {"valid", "in", "out", "psram"})

SmallNeeds == [f \in {sda, scl, tx, rx} |->
                 CASE f = tx -> {"out"} [] f = rx -> {"in"} [] OTHER -> {"in", "out"}]

SmallPorts == [type \in {"i2c", "uart"} |-> IF type = "i2c" THEN 0 :> {sda, scl}
                                                            ELSE 0 :> {tx, rx}]

Text(lists) == {[ok |-> TRUE, list |-> l] : l \in lists}
Malformed   == [ok |-> FALSE, list |-> <<>>]

\* Every array for three pins of one bus, one with a pin of the flash and one
\* with a pin of the PSRAM, an unknown function, and one that is too long.
AllPins ==
  LET arrays(S) == UNION {[1 .. n -> S] : n \in 2 .. 3} IN
  {Malformed} \cup Text(arrays({none, sda, scl}) \cup arrays({none, tx, rx})
                        \cup {<<>>, <<beyond>>, <<none, tx, none, rx>>,
                              <<none, tx, none, none, rx>>,
                              <<none, tx, rx, none, none, none>>})

I2c(n, p)     == [type |-> "i2c", instance |-> n, port |-> p, helpers |-> <<>>]
Uart(n, p, h) == [type |-> "uart", instance |-> n, port |-> p, helpers |-> h]

Entries ==
  {I2c(0, 0), I2c(1, 1), [I2c(0, 0) EXCEPT !.type = "other"], Uart(0, 1, <<-1, -1>>)}
    \cup {Uart(0, 0, <<h, -1>>) : h \in {-1, 0, 1, 2, 3, 4, 5}}
    \cup {Uart(0, 0, <<0, 0>>), Uart(0, 0, <<-1, 1>>)}
AllBindings ==
  {Malformed} \cup Text({<<>>, <<I2c(0, 0), I2c(1, 0)>>, <<I2c(0, 0), I2c(1, 0), I2c(2, 0)>>}
                        \cup {<<b>> : b \in Entries}
                        \cup {<<b, Uart(n, 0, <<-1, 0>>)>> : b \in Entries, n \in {0, 1}})

NewPins     == Text({<<sda, scl>>, <<none, tx, rx>>, <<sda, sda>>})
NewBindings == Text({<<>>, <<I2c(0, 0)>>, <<Uart(0, 0, <<0, -1>>)>>})
=============================================================================
