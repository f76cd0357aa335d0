------------------------------- MODULE Shamir -------------------------------
(***************************************************************************)
(* Secret sharing of ceremony seeds (shamir.rs), over GF(2^W).  A field    *)
(* element is the set of the bits that are one, the polynomial with these  *)
(* exponents, so that addition is the symmetric difference.  The code has  *)
(* W = 8 and shares the 32 bytes of a seed one by one with the same        *)
(* x-coordinates; here a seed is one element.                              *)
(***************************************************************************)
EXTENDS Naturals, Sequences, FiniteSets, SequencesExt

CONSTANTS W,     (* bits of an element                                     *)
          Irred  (* IRRED without its highest bit, as a set of exponents   *)

Byte == SUBSET (0 .. W - 1)

\* A number as an element: its binary digits.
Bits(x) == {i \in 0 .. W - 1 : (x \div 2 ^ i) % 2 = 1}

\* gf_add.
GfAdd(a, b) == (a \ b) \cup (b \ a)

\* a <<= 1, reduced when the highest bit falls out.
Double(a) ==
  LET shifted == {i + 1 : i \in a \ {W - 1}}
  IN  IF W - 1 \in a THEN GfAdd(shifted, Irred) ELSE shifted

\* gf_mul: for every bit of b, a doubled that often.
Product(a, b) ==
  LET times[i \in 0 .. W - 1] == IF i = 0 THEN a ELSE Double(times[i - 1])
  IN  FoldLeft(LAMBDA p, i : IF i - 1 \in b THEN GfAdd(p, times[i - 1]) ELSE p,
               {}, [i \in 1 .. W |-> i])

Products == [p \in Byte \X Byte |-> Product(p[1], p[2])]
GfMul(a, b) == Products[a, b]

\* IRRED is irreducible: a product is zero only when a factor is.
ASSUME ShamirAssumption ==
  /\ W \in Nat \ {0} /\ Irred \in Byte
  /\ \A a, b \in Byte : GfMul(a, b) = {} => a = {} \/ b = {}

\* gf_inv: a to the power 2^W - 2, whose binary digits are one but for the lowest.
Inverses ==
  [a \in Byte |->
     LET square[i \in 0 .. W - 1] == IF i = 0 THEN a ELSE GfMul(square[i - 1], square[i - 1])
     IN  FoldLeft(LAMBDA acc, i : GfMul(acc, square[i]), {0}, [i \in 1 .. W - 1 |-> i])]
GfInv(a) == Inverses[a]

\* eval_poly, from the highest coefficient down.
EvalPoly(coeffs, x) == FoldRight(LAMBDA c, y : GfAdd(GfMul(y, x), c), coeffs, {})

\* Mutant of Coefficients: the highest one may be zero.
AnyCoefficients(secret, threshold) == {c \in [1 .. threshold -> Byte] : c[1] = secret}

\* The polynomials split_seed may draw: the secret first, the highest not zero.
Coefficients(secret, threshold) ==
  {c \in [1 .. threshold -> Byte] : c[1] = secret /\ (threshold > 1 => c[threshold] # {})}

\* split_seed.
SplitSeed(coeffs, n) ==
  [x \in 1 .. n |-> [x |-> Bits(x), y |-> EvalPoly(coeffs, Bits(x))]]

\* lagrange_at_zero.
LagrangeAtZero(shares) ==
  LET all == [j \in 1 .. Len(shares) |-> j]
      term(i) ==
        LET num == FoldLeft(LAMBDA p, j : IF j = i THEN p ELSE GfMul(p, shares[j].x), {0}, all)
            den == FoldLeft(LAMBDA p, j : IF j = i THEN p
                                          ELSE GfMul(p, GfAdd(shares[i].x, shares[j].x)),
                            {0}, all)
        IN  GfMul(shares[i].y, GfMul(num, GfInv(den)))
  IN  FoldLeft(LAMBDA acc, i : GfAdd(acc, term(i)), {}, all)

\* What reconstruct_seed accepts: some shares, no x twice and none zero.  It cannot
\* tell whether they are enough or belong together.
Reconstructs(shares) ==
  /\ shares # <<>>
  /\ \A i \in 1 .. Len(shares) : shares[i].x # {}
  /\ \A i, j \in 1 .. Len(shares) : i # j => shares[i].x # shares[j].x

=============================================================================
