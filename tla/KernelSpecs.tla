---------------------------- MODULE KernelSpecs ----------------------------
(***************************************************************************)
(* What the kernels are to compute, written as the mathematics of the      *)
(* tests and of the reference functions beside the builders, and never as  *)
(* tiles.  A tensor is a row-major sequence; rows and columns count from   *)
(* 0.  A result is a function from some elements, from 1, to values.       *)
(***************************************************************************)
EXTENDS FlashKernels, QwenKernels

RowOf(t, i, d) == SubSeq(t, i * d + 1, (i + 1) * d)
Dot(u, v) == SumAll(Strict([i \in DOMAIN u |-> Times(u[i], v[i])]))
Silu(v) == Times(v, Apply1("sigmoid", v))
\* A result of n rows of d, row i given by f(i).
RowsOf(n, d, f(_)) ==
    LET rows == Strict([i \in 1 .. n |-> f(i - 1)])
    IN [e \in 1 .. n * d |-> rows[((e - 1) \div d) + 1][((e - 1) % d) + 1]]

(* Attention of a row of queries over the first n rows of head h's cache.  *)
AttendRow(c, q, k, v, qrow, h, n) ==
    LET cache(t) == [j \in 1 .. n |-> RowOf(t, h * KvRows(c) + j - 1, c.d)]
    IN Softmaxed(RowOf(q, qrow, c.d), cache(k), cache(v))
DecodeAttention(c, q, k, v, n) ==
    RowsOf(c.heads * c.q_rows, c.d, LAMBDA r : AttendRow(c, q, k, v, r, r \div c.q_rows, n))
\* Token t's queries see the positions up to its own.
CausalAttention(c, q, k, v, tokens, pos0) ==
    LET hg == c.heads * c.q_rows
    IN RowsOf(tokens * hg, c.d, LAMBDA r :
           AttendRow(c, q, k, v, r, (r % hg) \div c.q_rows, pos0 + (r \div hg) + 1))

RmsOf(row) ==
    Apply1("rsqrt", Plus2(Times(Dot(row, row), InverseOf(Len(row))), Eps))
Normalised(row, w) == [i \in DOMAIN row |-> Times(Times(row[i], RmsOf(row)), w[i])]

\* Products with a matrix whose row o is w(o).
Projected(x, t, n_in, n_out, w(_)) ==
    RowsOf(t, n_out, LAMBDA i : [o \in 1 .. n_out |-> Dot(RowOf(x, i, n_in), w(o - 1))])

\* Adjacent pairs (x0, x1) become (x0 c - x1 s, x0 s + x1 c).
Rotated(row, cos, sin) ==
    [i \in DOMAIN row |->
        LET p == (i + 1) \div 2
            x0 == row[2 * p - 1]
            x1 == row[2 * p]
        IN IF i % 2 = 1 THEN Minus(Times(x0, cos[p]), Times(x1, sin[p]))
           ELSE Plus2(Times(x0, sin[p]), Times(x1, cos[p]))]
\* The tables rope takes: each cosine twice, each sine negated then plain.
CosTable(cos) == [i \in 1 .. 2 * Len(cos) |-> cos[(i + 1) \div 2]]
SinTable(sin) ==
    [i \in 1 .. 2 * Len(sin) |-> IF i % 2 = 1 THEN Minus(0, sin[(i + 1) \div 2]) ELSE sin[i \div 2]]

\* Half against half over the first rot dimensions; the rest pass.
HalfRotated(row, rot, cos, sin) ==
    LET half == rot \div 2
    IN [i \in DOMAIN row |->
           IF i <= half THEN Minus(Times(row[i], cos[i]), Times(row[i + half], sin[i]))
           ELSE IF i <= rot
                THEN Plus2(Times(row[i], cos[i - half]), Times(row[i - half], sin[i - half]))
                ELSE row[i]]

\* The sign of entry (i, j) of a Walsh-Hadamard matrix.
RECURSIVE Parity(_, _)
Parity(i, j) ==
    IF i = 0 \/ j = 0 THEN 0 ELSE ((i % 2) * (j % 2) + Parity(i \div 2, j \div 2)) % 2
Hadamard(row, block) ==
    [i \in DOMAIN row |->
        LET first == ((i - 1) \div block) * block
            terms == [j \in 1 .. block |->
                         IF Parity((i - 1) % block, j - 1) = 0 THEN row[first + j]
                         ELSE Minus(0, row[first + j])]
        IN Times(SumAll(terms), RootInverse(block))]

(* The delta rule on one row of a head's state.  g and beta are the gates  *)
(* of the row, k and q the head's key and query.                           *)
DeltaRow(s, k, v, g, beta) ==
    LET decayed == Strict([j \in DOMAIN s |-> Times(s[j], g)])
        d == Times(Minus(v, Dot(decayed, k)), beta)
    IN Strict([j \in DOMAIN s |-> Plus2(decayed[j], Times(k[j], d))])

\* The states of row r of the layer's after 0 .. tokens tokens.
DeltaStates(c, in, r, tokens) ==
    LET gates == c.v_heads * c.v_dim
        h == r \div c.v_dim
        f[t \in 0 .. tokens] ==
            IF t = 0 THEN RowOf(in[1], r, c.k_dim)
            ELSE DeltaRow(f[t - 1], RowOf(in[3], (t - 1) * c.v_heads + h, c.k_dim),
                          in[4][(t - 1) * c.v_width + c.v_base + r + 1],
                          in[5][(t - 1) * gates + r + 1], in[6][(t - 1) * gates + r + 1])
    IN f
DeltaStateAfter(c, in, tokens) ==
    RowsOf(c.v_heads * c.v_dim, c.k_dim, LAMBDA r : DeltaStates(c, in, r, tokens)[tokens])
DeltaOutputs(c, in, tokens) ==
    LET gates == c.v_heads * c.v_dim
        y(i) == LET t == (i \div gates) + 1
                    r == i % gates
                IN Dot(DeltaStates(c, in, r, t)[t],
                       RowOf(in[2], (t - 1) * c.v_heads + (r \div c.v_dim), c.k_dim))
    IN RowsOf(tokens * gates, 1, LAMBDA i : << y(i) >>)
\* Every token but the last leaves its state behind it.
DeltaSnaps(c, in, tokens) ==
    LET gates == c.v_heads * c.v_dim
    IN RowsOf((tokens - 1) * gates, c.k_dim, LAMBDA i :
           LET t == (i \div gates) + 1 IN DeltaStates(c, in, i % gates, t)[t])

(* The convolution: the rows it slides over are the carried window and     *)
(* then the batch.                                                         *)
ConvRow(in, i, channels, kernel) ==
    IF i < kernel - 1 THEN RowOf(in[1], i, channels) ELSE RowOf(in[2], i - kernel + 1, channels)
ConvOutputs(in, tokens, channels, kernel) ==
    RowsOf(tokens, channels, LAMBDA t :
        [ch \in 1 .. channels |->
            Silu(SumAll([i \in 1 .. kernel |->
                     Times(ConvRow(in, t + i - 1, channels, kernel)[ch],
                           RowOf(in[3], i - 1, channels)[ch])]))])
ConvWindow(in, done, channels, kernel) ==
    RowsOf(kernel - 1, channels, LAMBDA i : ConvRow(in, done + i, channels, kernel))
ConvSnaps(in, tokens, channels, kernel) ==
    RowsOf(tokens * (kernel - 1), channels, LAMBDA i :
        ConvRow(in, (i \div (kernel - 1)) + 1 + (i % (kernel - 1)), channels, kernel))
=============================================================================
