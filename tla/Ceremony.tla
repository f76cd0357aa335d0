------------------------------ MODULE Ceremony ------------------------------
(***************************************************************************)
(* The consortium key ceremony (ceremony.rs, aegis_ceremony.rs): it draws  *)
(* an authority's key, writes its files one by one, goes on to the next,   *)
(* and at last writes the sample admission, the manifest and the snippet   *)
(* for node configurations.  It may die between or inside two writes and   *)
(* be run again, with other parameters, into the same directory.           *)
(*                                                                         *)
(*   run   the process: its step, parameters, authority, pending shares    *)
(*         and the keys drawn so far                                       *)
(*   dir   the files: pub, seed and share per authority, admission,        *)
(*         manifest                                                        *)
(*                                                                         *)
(* A public key is named by its seed.  Custody by an HSM always fails in   *)
(* this build (custody.rs) and has no step.                                *)
(***************************************************************************)
EXTENDS Shamir

CONSTANTS
  Params,     (* CeremonyConfig: [n, m, write, shares, needed], see Valid  *)
  Seeds,      (* seeds that may be drawn                                   *)
  NoFile, HalfFile,
  MaxAuthorities, MaxShares, MaxRuns   (* bounds of the model              *)

VARIABLES run, dir, runs

cerVars == <<run, dir, runs>>

Authority == 0 .. MaxAuthorities - 1

Idle == [at |-> "idle"]
EmptyDir == [pub |-> [i \in Authority |-> NoFile], seed |-> [i \in Authority |-> NoFile],
             share |-> [i \in Authority |-> [j \in 1 .. MaxShares |-> NoFile]],
             admission |-> NoFile, manifest |-> NoFile]

CerInit == run = Idle /\ dir = EmptyDir /\ runs = 0

\* The checks of run_ceremony; shares = 0 is a ceremony without Shamir.
Valid(p) ==
  /\ p.n >= 1 /\ p.m \in 1 .. p.n
  /\ p.shares > 0 \/ p.needed > 0 => p.needed \in 1 .. p.shares /\ p.shares < 2 ^ W

ASSUME CeremonyAssumption ==
  /\ Params \subseteq [n : Nat, m : Nat, write : BOOLEAN, shares : Nat, needed : Nat]
  /\ \A p \in Params : Valid(p) => p.n <= MaxAuthorities /\ p.shares <= MaxShares
  /\ Seeds \subseteq Byte /\ MaxAuthorities \in Nat /\ MaxShares \in Nat

Begin(p) ==
  /\ run.at \in {"idle", "done"} /\ runs < MaxRuns /\ runs' = runs + 1
  /\ run' = IF Valid(p) THEN [at |-> "key", p |-> p, i |-> 0, keys |-> <<>>] ELSE Idle
  /\ UNCHANGED dir

\* SigningKey::generate, and the polynomial of split_seed.
DrawKey ==
  /\ run.at = "key" /\ run.i < run.p.n
  /\ \E s \in Seeds : \E c \in Coefficients(s, IF run.p.shares = 0 THEN 1 ELSE run.p.needed) :
       /\ \A k \in 1 .. Len(run.keys) : run.keys[k] # s
       /\ run' = [at |-> "pub", p |-> run.p, i |-> run.i, keys |-> Append(run.keys, s),
                  shares |-> IF run.p.shares = 0 THEN <<>> ELSE SplitSeed(c, run.p.shares),
                  j |-> 1]
  /\ UNCHANGED <<dir, runs>>

Drawn == run.keys[run.i + 1]

\* write_restricted: the file is created or truncated.
Overwrites(old, new) == new

WritePub ==
  /\ run.at = "pub" /\ dir' = [dir EXCEPT !.pub[run.i] = Overwrites(@, Drawn)]
  /\ run' = [run EXCEPT !.at = IF run.p.write THEN "seed" ELSE "share"] /\ UNCHANGED runs

WriteSeed ==
  /\ run.at = "seed" /\ dir' = [dir EXCEPT !.seed[run.i] = Overwrites(@, Drawn)]
  /\ run' = [run EXCEPT !.at = "share"] /\ UNCHANGED runs

WriteShare ==
  /\ run.at = "share" /\ run.j <= Len(run.shares)
  /\ dir' = [dir EXCEPT !.share[run.i][run.j] = Overwrites(@, run.shares[run.j])]
  /\ run' = [run EXCEPT !.j = @ + 1] /\ UNCHANGED runs

NextAuthority ==
  /\ run.at = "share" /\ run.j > Len(run.shares)
  /\ run' = [at |-> "key", p |-> run.p, i |-> run.i + 1, keys |-> run.keys]
  /\ UNCHANGED <<dir, runs>>

\* The sample admission: the first M authorities sign, verified before it is written.
WriteAdmission ==
  /\ run.at = "key" /\ run.i = run.p.n
  /\ dir' = [dir EXCEPT !.admission = SubSeq(run.keys, 1, run.p.m)]
  /\ run' = [run EXCEPT !.at = "manifest"] /\ UNCHANGED runs

\* consortium.json and the snippet for node configurations, which repeats it.
WriteManifest ==
  /\ run.at = "manifest" /\ dir' = [dir EXCEPT !.manifest = [keys |-> run.keys, p |-> run.p]]
  /\ run' = [run EXCEPT !.at = "done"] /\ UNCHANGED runs

\* The machine goes down between two writes, or inside one.
CeremonyDies ==
  /\ run.at \notin {"idle", "done"} /\ run' = Idle /\ UNCHANGED runs
  /\ \/ UNCHANGED dir
     \/ run.at = "pub" /\ dir' = [dir EXCEPT !.pub[run.i] = HalfFile]
     \/ run.at = "seed" /\ dir' = [dir EXCEPT !.seed[run.i] = HalfFile]
     \/ run.at = "share" /\ run.j <= Len(run.shares)
        /\ dir' = [dir EXCEPT !.share[run.i][run.j] = HalfFile]
     \/ run.at = "key" /\ run.i = run.p.n /\ dir' = [dir EXCEPT !.admission = HalfFile]
     \/ run.at = "manifest" /\ dir' = [dir EXCEPT !.manifest = HalfFile]

CerNext == (\E p \in Params : Begin(p)) \/ DrawKey \/ WritePub \/ WriteSeed \/ WriteShare
           \/ NextAuthority \/ WriteAdmission \/ WriteManifest \/ CeremonyDies

CerSpec == CerInit /\ [][CerNext]_cerVars

-----------------------------------------------------------------------------
\* Share files of authority i as they are given to aegis-ceremony --reconstruct.
ShareFiles(i, chosen) == [k \in 1 .. Len(chosen) |-> dir.share[i][chosen[k]]]

\* A ceremony that ended well leaves a directory in which everything belongs together,
\* whatever earlier runs left there: any T share files of an authority, in any order,
\* rebuild the seed of its public key in the manifest, one file fewer never does, the
\* seed file agrees and the sample admission carries M of those keys.
Rebuildable ==
  run.at = "done" =>
    LET m == dir.manifest
    IN  /\ \A i \in 0 .. m.p.n - 1 :
             /\ dir.pub[i] = m.keys[i + 1]
             /\ m.p.write => dir.seed[i] = m.keys[i + 1]
             /\ \A k \in 1 .. m.p.shares : \A chosen \in [1 .. k -> 1 .. m.p.shares] :
                  IsInjective(chosen) =>
                    /\ k >= m.p.needed =>
                         /\ Reconstructs(ShareFiles(i, chosen))
                         /\ LagrangeAtZero(ShareFiles(i, chosen)) = dir.pub[i]
                    /\ k = m.p.needed - 1 =>
                         LagrangeAtZero(ShareFiles(i, chosen)) # dir.pub[i]
        /\ Cardinality(Range(dir.admission) \cap Range(m.keys)) >= m.p.m
=============================================================================
