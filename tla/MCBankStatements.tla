--------------------------- MODULE MCBankStatements ---------------------------
(***************************************************************************)
(* Two uploads of a statement of one period, with and without printed      *)
(* balances, of amounts of a few cents.                                    *)
(***************************************************************************)
EXTENDS BankStatements

CONSTANTS k1, s1, s2

File(key, moves, balances) ==
  [key |-> key, beginning |-> 5, moves |-> moves, balances |-> balances]

Files == {File(k1, <<-2, 3>>, TRUE), File(k1, <<3, -3>>, FALSE)}

================================================================================
