--------------------------- MODULE ResizePolicy ---------------------------
(***************************************************************************)
(* The resize policies of src/src/fs/iwexfile.c: a policy maps a requested *)
(* size and the current size (and an opaque context) to the next file     *)
(* size.  _exfile_ensure_size_lw accepts the answer only if it is at      *)
(* least the request and a multiple of the page size.                     *)
(*                                                                         *)
(* A policy result is a record [size, ctx]: ctx is the policy context     *)
(* after the call (NULL, or prev_sz of the allocated context of the       *)
(* Fibonacci policy; unused otherwise).  nomem says that the calloc of    *)
(* the Fibonacci context fails in this call.                              *)
(***************************************************************************)
EXTENDS Integers

CONSTANTS
  NULL,       \* the null pointer, a model value
  PSIZE,      \* iwp_page_size(), a power of two
  OFF_T_MAX,  \* the largest off_t
  MUL         \* the IW_RNUM context of iw_exfile_szpolicy_mul: [n, dn]

ASSUME PSIZE \in Nat \ {0}
ASSUME OFF_T_MAX \in Nat /\ OFF_T_MAX >= PSIZE
ASSUME MUL \in [n : Nat, dn : Nat]

\* IW_ROUNDUP / IW_ROUNDOWN: (x + a - 1) & ~(a - 1) and x & ~(a - 1) for a
\* power of two a, i.e. floor division on two's complement values.
RoundUp(x, a) == ((x + a - 1) \div a) * a
RoundDown(x, a) == (x \div a) * a

\* _exfile_default_szpolicy.
DefaultPolicy(nsize) == IF nsize = -1 THEN 0 ELSE RoundUp(nsize, PSIZE)

\* iw_exfile_szpolicy_fibo: next = roundup(max(csize + prev_sz, nsize)),
\* clamped to OFF_T_MAX, and prev_sz becomes csize.  The context is
\* allocated lazily with prev_sz = 0; if calloc fails the default policy
\* answers and the context stays NULL.  req = -1 frees it.
FiboAllocates(ctx) == ctx = NULL
FiboPolicy(nsize, csize, ctx, nomem) ==
  IF nsize = -1 THEN [size |-> 0, ctx |-> NULL]
  ELSE IF FiboAllocates(ctx) /\ nomem THEN [size |-> DefaultPolicy(nsize), ctx |-> NULL]
  ELSE LET sum == csize + (IF ctx = NULL THEN 0 ELSE ctx)
           res == RoundUp(IF sum >= nsize THEN sum ELSE nsize, PSIZE)
       IN  [size |-> IF res > OFF_T_MAX THEN OFF_T_MAX ELSE res, ctx |-> csize]

\* iw_exfile_szpolicy_mul: an invalid context falls back to the default
\* policy; otherwise ret = nsize / dn * n in uint64 arithmetic, rounded up
\* to a page and clamped to OFF_T_MAX.
MulPolicy(nsize) ==
  IF nsize = -1 THEN 0
  ELSE IF MUL.dn = 0 \/ MUL.n < MUL.dn THEN DefaultPolicy(nsize)
  ELSE LET ret == RoundUp((nsize \div MUL.dn) * MUL.n, PSIZE)
       IN  IF ret > OFF_T_MAX THEN OFF_T_MAX ELSE ret

\* The configured policy, impl->rspolicy, applied as _exfile_ensure_size_lw
\* does: rspolicy(sz, impl->fsize, f, &impl->rspolicy_ctx).
CallsCalloc(kind, ctx) == kind = "fibo" /\ FiboAllocates(ctx)
ApplyPolicy(kind, nsize, csize, ctx, nomem) ==
  CASE kind = "default" -> [size |-> DefaultPolicy(nsize), ctx |-> ctx]
    [] kind = "fibo"    -> FiboPolicy(nsize, csize, ctx, nomem)
    [] kind = "mul"     -> [size |-> MulPolicy(nsize), ctx |-> ctx]

\* What _exfile_ensure_size_lw requires of a policy answer.
Acceptable(nsize, res) == res >= nsize /\ res % PSIZE = 0
=============================================================================
