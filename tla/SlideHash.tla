------------------------------ MODULE SlideHash ------------------------------
(***************************************************************************)
(* slide_hash: when the window has moved down by slide_len, the positions  *)
(* in head and prev move down with it, and those that fall out become 0.   *)
(* A table is a function on 0 .. entries-1; each variant walks it in its   *)
(* own direction, so many entries at a time.                               *)
(***************************************************************************)
EXTENDS Loops

\* A saturating 16-bit subtraction, as vectors have it.
Subs(m, slide) == IF m < slide THEN 0 ELSE m - slide

\* One run over a table from `start`, by `step`, `count` times, `width`
\* entries each.
Walk(table, start, step, width, count, Entry(_)) ==
    Loop(LAMBDA t, i : LET at == start + (i - 1) * step
                       IN  [e \in DOMAIN t |-> IF e \in at..(at + width - 1) THEN Entry(t[e]) ELSE t[e]],
         table, count)
Upwards(table, entries, width, Entry(_)) ==
    Walk(table, 0, width, width, entries \div width, Entry)
Downwards(table, entries, width, Entry(_)) ==
    Walk(table, entries - width, -width, width, entries \div width, Entry)

slide_hash_c_chain(table, entries, wsize) ==
    Upwards(table, entries, 1, LAMBDA m : IF m >= wsize THEN m - wsize ELSE 0)
\* One vector too few.
slide_chain_sse2Short(table, entries, wsize) ==
    Walk(table, entries - 16, -16, 16, (entries - 1) \div 16, LAMBDA m : Subs(m, wsize))
slide_chain_sse2(table, entries, wsize) == Downwards(table, entries, 16, LAMBDA m : Subs(m, wsize))
slide_chain_avx2(table, entries, wsize) == Downwards(table, entries, 32, LAMBDA m : Subs(m, wsize))
slide_chain_lsx(table, entries, wsize) == Downwards(table, entries, 16, LAMBDA m : Subs(m, wsize))
slide_chain_lasx(table, entries, wsize) == Downwards(table, entries, 32, LAMBDA m : Subs(m, wsize))
slide_chain_armv6(table, entries, wsize) == Upwards(table, entries, 8, LAMBDA m : Subs(m, wsize))
slide_chain_neon(table, entries, wsize) == Upwards(table, entries, 64, LAMBDA m : Subs(m, wsize))
slide_chain_ppc(table, entries, wsize) == Upwards(table, entries, 32, LAMBDA m : Subs(m, wsize))
slide_chain_msa(table, entries, wsize) == Upwards(table, entries, 32, LAMBDA m : Subs(m, wsize))
slide_chain_vx(table, entries, wsize) ==
    Upwards(table, entries, 8, LAMBDA m : m - (IF m < wsize THEN m ELSE wsize))
\* vl entries, or as many as are left.
slide_chain_rvv(table, entries, wsize, vl) ==
    Walk(table, 0, vl, vl, (entries + vl - 1) \div vl, LAMBDA m : Subs(m, wsize))

SlideVariants == {"c", "sse2", "avx2", "lsx", "lasx", "armv6", "neon", "ppc", "msa", "vx", "rvv"}

Chain(variant, table, entries, slide) ==
    CASE variant = "c" -> slide_hash_c_chain(table, entries, slide)
      [] variant = "sse2" -> slide_chain_sse2(table, entries, slide)
      [] variant = "avx2" -> slide_chain_avx2(table, entries, slide)
      [] variant = "lsx" -> slide_chain_lsx(table, entries, slide)
      [] variant = "lasx" -> slide_chain_lasx(table, entries, slide)
      [] variant = "armv6" -> slide_chain_armv6(table, entries, slide)
      [] variant = "neon" -> slide_chain_neon(table, entries, slide)
      [] variant = "ppc" -> slide_chain_ppc(table, entries, slide)
      [] variant = "msa" -> slide_chain_msa(table, entries, slide)
      [] variant = "vx" -> slide_chain_vx(table, entries, slide)
      [] variant = "rvv" -> slide_chain_rvv(table, entries, slide, 24)

\* By how much a variant moves the positions: slide_hash_msa takes w_size for
\* it, all others slide_len.
Slide(variant, w_size, slide_len) == IF variant = "msa" THEN w_size ELSE slide_len

\* slide_hash and slide_hash_head of a variant.
SlideHash(variant, head, prev, w_size, hash_size, slide_len) ==
    LET slide == Slide(variant, w_size, slide_len)
    IN  [head |-> Chain(variant, head, hash_size, slide), prev |-> Chain(variant, prev, w_size, slide)]
SlideHashHead(variant, head, prev, w_size, hash_size, slide_len) ==
    [head |-> Chain(variant, head, hash_size, slide_len), prev |-> prev]
=============================================================================
