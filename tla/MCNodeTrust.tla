---------------------------- MODULE MCNodeTrust -----------------------------
EXTENDS NodeTrust

CONSTANTS r1, r2, r3, x1, x2, x3, orgA, orgB, op, noKey, gone

MCOrgOf == [r \in Relay |-> IF r = r3 THEN orgB ELSE orgA]

\* Two payloads of r1 and one of r2 and r3, all about r3 and of one epoch; one
\* advert from the wrong link and one that is not signed.
Adv(r, ok, fail, ts) == [link |-> r, reporter |-> r, subject |-> r3, ok |-> ok,
                         fail |-> fail, ts |-> ts, signed |-> TRUE]
MCAdvert == {Adv(r1, 4, 0, 0), Adv(r1, 0, 4, 0), Adv(r2, 2, 2, 0), Adv(r3, 4, 0, 1),
             [Adv(r2, 0, 4, 0) EXCEPT !.link = r1], [Adv(r2, 0, 4, 0) EXCEPT !.signed = FALSE]}

\* A frame behind a torn record.  The first one begins with the torn bytes: with a
\* reporter and a subject among them, it has the torn record's key, and its counts or
\* what stands in their place.  The later ones name ids that belong to nobody.
Stranger(r) == IF r = r1 THEN x1 ELSE IF r = r2 THEN x2 ELSE x3
Shifted(r)  == [epoch |-> 0, reporter |-> Stranger(r.reporter), subject |-> r.subject,
                ok |-> r.fail, fail |-> r.epoch]
MCMisread(prev, report) ==
  IF prev.whole THEN {Shifted(prev.report)}
  ELSE {prev.report, [prev.report EXCEPT !.ok = report.epoch]}

\* All but the last eight bytes of a record written: the first frame behind it is the
\* torn record with a false signature; the epoch of a later one is a piece of the
\* reporter, its counts are the failures and a piece of the signature, and its subject
\* ends in the successes.
EightBytesOff(prev, report) ==
  IF prev.whole
  THEN {[epoch |-> 0, reporter |-> Stranger(prev.report.reporter),
         subject |-> IF prev.report.ok = 4 THEN x3 ELSE x2,
         ok |-> prev.report.fail, fail |-> prev.report.epoch]}
  ELSE {prev.report}

\* The same counts of r1 in two epochs, among others.
TwoEpochs == {Adv(r1, 4, 0, 0), Adv(r1, 4, 0, 1), Adv(r2, 2, 2, 0), Adv(r3, 2, 2, 0)}

\* No key; a signing key in a file; a key to verify with and none to sign with.
K(seed, kf, verify) == [seed |-> seed, file |-> kf, verify |-> verify]
MCSettings ==
  [mode : {"disk"}, keys : {K(noKey, op, noKey), K(noKey, noKey, op)}]
  \cup [mode : {"disk", "memory", "none"}, keys : {K(noKey, noKey, noKey)}]
OnDisk == [mode : {"disk"}, keys : {K(noKey, noKey, noKey)}]
=============================================================================
