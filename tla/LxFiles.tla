------------------------------ MODULE LxFiles ------------------------------
(***************************************************************************)
(* The algorithms of the .lx files of lex-front, token by token.           *)
(***************************************************************************)
EXTENDS Sequences

RmsNormLx == <<
    "algo", "rmsnorm", "(", "n", ",", "eps", ")", "in", "x", ":", "f32", "[", "1", ",", "n", "]",
    "in", "w", ":", "f32", "[", "1", ",", "n", "]", "out", "y", ":", "f32", "[", "1", ",", "n", "]",
    "{", "let", "x", "=", "load", "x", "let", "sq", "=", "&", "x", "*", "&", "x",
    "let", "ss", "=", "rowsum", "sq", "let", "ms", "=", "ss", "*", "(", "1", "/", "n", ")",
    "let", "t", "=", "ms", "+", "eps", "let", "r", "=", "rsqrt", "t", "let", "xn", "=", "x", "*", "r",
    "let", "w", "=", "load", "w", "store", "xn", "*", "w", "->", "y", "}" >>

SiluMulLx == <<
    "algo", "silu_mul_16384_f32", "in", "g", ":", "f32", "[", "1", ",", "16384", "]",
    "in", "u", ":", "f32", "[", "1", ",", "16384", "]",
    "out", "y", ":", "f32", "[", "1", ",", "16384", "]", "{", "let", "g", "=", "load", "g",
    "let", "u", "=", "load", "u", "let", "sg", "=", "sigmoid", "&", "g",
    "let", "a", "=", "g", "*", "sg", "store", "a", "*", "u", "->", "y", "}" >>

GemmLx == <<
    "algo", "gemm", "(", "m", ",", "n", ",", "k", ")", "in", "a", ":", "f16", "[", "m", ",", "k", "]",
    "in", "w", ":", "f16", "[", "n", ",", "k", "]", "out", "y", ":", "f32", "[", "m", ",", "n", "]",
    "tile", "bm", ",", "bn", ",", "bk", "{",
    "grid", "i", "over", "m", "/", "bm", ",", "j", "over", "n", "/", "bn",
    "let", "acc", "=", "zeros", "f32", "[", "bm", ",", "bn", "]",
    "let", "acc", "=", "for", "p", "in", "0", "..", "k", "/", "bk", "with", "acc", "{",
    "let", "at", "=", "load", "a", "[", "i", "*", "bm", ",", "p", "*", "bk", ";", "bm", ",", "bk", "]",
    "let", "wt", "=", "load", "w", "[", "j", "*", "bn", ",", "p", "*", "bk", ";", "bn", ",", "bk", "]",
    "yield", "acc", "+", "matmul_nt", "at", "wt", "}",
    "store", "acc", "->", "y", "[", "i", "*", "bm", ",", "j", "*", "bn", "]", "}" >>

GemmMmaLx == <<
    "algo", "gemm_mma", "(", "m", ",", "n", ",", "k", ")",
    "in", "a", ":", "f16", "[", "m", ",", "k", "]", "in", "w", ":", "f16", "[", "n", ",", "k", "]",
    "out", "y", ":", "f32", "[", "m", ",", "n", "]", "tile", "bm", ",", "bn", ",", "bk", "{",
    "grid", "i", "over", "m", "/", "bm", ",", "j", "over", "n", "/", "bn",
    "let", "acc", "=", "zeros", "f32", "[", "bm", ",", "bn", "]", "@", "frag",
    "let", "acc", "=", "for", "p", "in", "0", "..", "k", "/", "bk", "with", "acc", "{",
    "let", "at", "=", "load", "a", "[", "i", "*", "bm", ",", "p", "*", "bk", ";", "bm", ",", "bk", "]", "@", "shared",
    "let", "wt", "=", "load", "w", "[", "j", "*", "bn", ",", "p", "*", "bk", ";", "bn", ",", "bk", "]", "@", "shared",
    "yield", "mma", "acc", "at", "wt", "}",
    "store", "acc", "->", "y", "[", "i", "*", "bm", ",", "j", "*", "bn", "]", "}" >>

GemmFp4ResLx == <<
    "algo", "gemm_fp4_res", "(", "m", ",", "n", ",", "k", ")",
    "in", "x", ":", "f16", "[", "m", ",", "k", "]",
    "in", "wq", ":", "i8", "[", "n", ",", "k", "/", "2", "]",
    "in", "ws", ":", "i8", "[", "n", ",", "k", "/", "16", "]", "in", "wg", ":", "f32", "[", "n", "]",
    "in", "r", ":", "f32", "[", "m", ",", "n", "]", "out", "y", ":", "f32", "[", "m", ",", "n", "]",
    "tile", "bm", ",", "bn", ",", "bk", "{",
    "grid", "i", "over", "m", "/", "bm", ",", "j", "over", "n", "/", "bn",
    "let", "acc", "=", "zeros", "f32", "[", "bm", ",", "bn", "]", "@", "frag",
    "let", "acc", "=", "for", "p", "in", "0", "..", "k", "/", "bk", "with", "acc", "{",
    "let", "xt", "=", "load", "x", "[", "i", "*", "bm", ",", "p", "*", "bk", ";", "bm", ",", "bk", "]", "@", "shared",
    "let", "q", "=", "load", "wq", "[", "j", "*", "bn", ",", "p", "*", "(", "bk", "/", "2", ")", ";", "bn", ",", "bk", "/", "2", "]",
    "let", "s", "=", "load", "ws", "[", "j", "*", "bn", ",", "p", "*", "(", "bk", "/", "16", ")", ";", "bn", ",", "bk", "/", "16", "]",
    "let", "g", "=", "load", "wg", "[", "j", "*", "bn", ";", "bn", "]",
    "let", "w", "=", "dequant_fp4", "q", "s", "g", "16", "let", "wt", "=", "stage", "f16", "w",
    "yield", "mma", "acc", "xt", "wt", "}",
    "let", "acc", "=", "add_window", "acc", "r", "[", "i", "*", "bm", ",", "j", "*", "bn", "]",
    "store", "acc", "->", "y", "[", "i", "*", "bm", ",", "j", "*", "bn", "]", "}" >>
=============================================================================
