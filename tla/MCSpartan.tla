------------------------------ MODULE MCSpartan ------------------------------
(* Small statements for both proof systems, and many batches to encode. *)
EXTENDS Spartan

Names == <<"nizk", "snark", "digest", "size", "r1cs", "input", "share", "tau", "round",
           "comm_poly", "claim", "weights", "joint", "knowledge", "equality", "product",
           "dot_product", "dot_product_log", "poly_eval", "C", "c", "a", "r", "u",
           "matrix_claim", "sparse_eval", "r_hash", "network", "product_layer", "coeffs",
           "poly", "layer", "hash", "derefs", "evals", "combine", "joint_eval">>

MCCode == [x \in {Names[i] : i \in DOMAIN Names} |-> 101 * (CHOOSE i \in DOMAIN Names : Names[i] = x)]

MCRandom(k) == (k * k * 5 + 3 * k + 2) % p

MCMemVal(a) == IF a = 1 THEN 5 ELSE 7

(* x1 * x2 = io and x1 + x1 = x2 + 1, over columns x1, x2, 1, io. *)
A1 == <<<<0, 0, 1>>, <<1, 0, 2>>, <<1, 2, p - 1>>>>
B1 == <<<<0, 1, 1>>, <<1, 2, 1>>>>
C1 == <<<<0, 3, 1>>, <<1, 1, 1>>>>

Square(w, io, m, nz) == [mode |-> m, cons |-> 2, vars |-> 2, A |-> A1, B |-> B1, C |-> C1,
                     w |-> w, io |-> io, nz |-> nz]

(* Four rows: x1 * x1 = x2, x2 * x1 = x3, x3 + x4 = io, and the same entry   *)
(* twice in the last.                                                        *)
A2 == <<<<0, 0, 1>>, <<1, 1, 1>>, <<2, 2, 1>>, <<2, 3, 1>>, <<3, 4, 1>>, <<3, 4, 1>>>>
B2 == <<<<0, 0, 1>>, <<1, 0, 1>>, <<2, 4, 1>>, <<3, 3, 1>>>>
C2 == <<<<0, 1, 1>>, <<1, 2, 1>>, <<2, 5, 1>>, <<3, 6, 1>>>>

Cubic(w, io) == [mode |-> "nizk", cons |-> 4, vars |-> 4, A |-> A2, B |-> B2, C |-> C2,
                 w |-> w, io |-> io, nz |-> 8]

MCStatements ==
  {Square(<<3, 5>>, <<15>>, m, 4) : m \in {"nizk", "snark"}}
    \cup {Square(<<3, 5>>, <<16>>, "nizk", 4), Square(<<3, 6>>, <<15>>, "snark", 4)}
    \cup {Square(<<3, 5>>, <<15>>, "snark", nz) : nz \in {1, 2, 8}}
    \cup {Cubic(<<2, 4, 8, 5>>, <<13, 10>>), Cubic(<<2, 4, 8, 5>>, <<13, 9>>)}

MCEncodeBatches ==
  {e \in [Inst -> {<<>>, <<0>>, <<3, 0>>, <<1, 1, 3>>, <<3, 3, 0, 1>>, <<0, 2, 0, 2>>}] :
     \E m \in Inst : Len(e[m]) > 2}

MCSeeds == 0 .. 7
=============================================================================
