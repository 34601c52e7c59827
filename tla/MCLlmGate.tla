------------------------------ MODULE MCLlmGate -----------------------------
(* Instances of LlmGate: two or three tasks share a small limiter.         *)
EXTENDS LlmGate

RetryAfterValues == {0, 2}
=============================================================================
