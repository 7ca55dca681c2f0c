---------------------------- MODULE MCGenerator ----------------------------
(* Generator with words of eight bits and the templates of templates.rs. *)
EXTENDS Generator
B == INSTANCE Bitwise
T == INSTANCE Templates

MCXor(a, b) == B!^^(a, b)
MCMix == [golden |-> 157, mul1 |-> 191, mul2 |-> 149, shift1 |-> 4, shift2 |-> 3, shift3 |-> 4]
MCStream(k, p) ==
  LET a == ((k * 263) + (p * 7919) + 17) % 46337
  IN  ((a * a) % 1048573) + (a * p)
MCLines == T!generate_log_line
MCLineWeights == T!TemplateWeights
MCException == T!tpl_exception
=============================================================================
