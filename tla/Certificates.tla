---------------------------- MODULE Certificates ----------------------------
(***************************************************************************)
(* The certificate authority of a server and the certificate of its        *)
(* endpoint (src/src/tls/authority.ts), as one start after another finds   *)
(* them on disk.  Each is a key and a certificate in two files, written    *)
(* one after the other, and a start may be killed before, between, in the  *)
(* middle of or after those writes.  A pair of keys is a number.  Beside   *)
(* it an operator may have a certificate of their own                      *)
(* (src/src/tls/supplied.ts), and which of the two a caller is shown       *)
(* depends on the name it asks for (src/src/grpc/server.ts).               *)
(***************************************************************************)
EXTENDS Naturals

CONSTANTS
  Hostnames,  \* what an operator may name a server
  MaxPairs,   \* a bound on the pairs generated
  MaxAges,    \* a bound on how often the endpoint's certificate comes near its expiry
  MaxRemoved  \* a bound on the files an operator removes

\* A caller that dials this machine's own address asks for no name.
ASSUME CertificatesAssumption ==
  /\ MaxPairs \in Nat /\ MaxAges \in Nat /\ MaxRemoved \in Nat
  /\ "127.0.0.1" \notin Hostnames

VARIABLES
  caKey, caCert,     \* the authority's files
  leafKey, leafCert, \* the endpoint's
  doing,             \* where a start is
  names,             \* the names it was given
  authority,         \* the authority it has, and whether it made it
  served,            \* the certificate and the key it serves with
  supplied,          \* the operator's own certificate, if it has one to show
  pairs,             \* pairs generated so far
  ages, removed

certVars == <<caKey, caCert, leafKey, leafCert, doing, names, authority, served, supplied, pairs, ages, removed>>
files == <<caKey, caCert, leafKey, leafCert>>

\* A file that is not there, and one that is not all there.
Nothing == [is |-> "none"]
Half == [is |-> "half"]
KeyFile(n) == [is |-> "key", pair |-> n]
CaCert(n) == [is |-> "cert", pair |-> n]
LeafCert(n, signer, ns) == [is |-> "cert", pair |-> n, signer |-> signer, names |-> ns, old |-> FALSE]

CertInit ==
  /\ caKey = Nothing /\ caCert = Nothing /\ leafKey = Nothing /\ leafCert = Nothing
  /\ doing = "down" /\ names = {} /\ authority = Nothing /\ served = Nothing /\ supplied = Nothing
  /\ pairs = 0 /\ ages = 0 /\ removed = 0

\* ensureCertificates: an authority that is found is kept.  A file that is not
\* a certificate is no certificate.
StartsWith(ns) ==
  /\ doing = "down"
  /\ names' = ns
  /\ \/ /\ caCert.is = "cert"
        /\ authority' = [pair |-> caCert.pair, made |-> FALSE]
        /\ doing' = "ca read" /\ UNCHANGED pairs
     \/ /\ caCert.is # "cert" /\ pairs < MaxPairs
        /\ pairs' = pairs + 1
        /\ authority' = [pair |-> pairs', made |-> TRUE]
        /\ doing' = "ca key"
  /\ UNCHANGED <<files, served, ages, removed, supplied>>

\* issueAuthority.  Writing a file empties it first.
WritesCaKey ==
  /\ doing = "ca key"
  /\ \/ caKey.is = "key" /\ caKey.pair # authority.pair /\ caKey' = Half /\ UNCHANGED doing
     \/ caKey' = KeyFile(authority.pair) /\ doing' = "ca cert"
  /\ UNCHANGED <<caCert, leafKey, leafCert, names, authority, served, pairs, ages, removed, supplied>>

WritesCaCert ==
  /\ doing = "ca cert"
  /\ \/ caCert = Nothing /\ caCert' = Half /\ UNCHANGED doing
     \/ caCert' = CaCert(authority.pair) /\ doing' = "ca read"
  /\ UNCHANGED <<caKey, leafKey, leafCert, names, authority, served, pairs, ages, removed, supplied>>

\* leafReplacementReason: who signed it, how long it lasts, what it names.
IsGood(leaf) ==
  /\ leaf.is = "cert" /\ leaf.signer = authority.pair
  /\ ~leaf.old
  /\ names \subseteq leaf.names

\* The authority's key is read again; an endpoint's certificate that an
\* authority made just now cannot have issued is not looked at.
ReadsCaKey ==
  /\ doing = "ca read"
  /\ \/ caKey.is # "key" /\ doing' = "down" /\ UNCHANGED pairs
     \/ caKey.is = "key" /\ ~authority.made /\ IsGood(leafCert) /\ doing' = "leaf read" /\ UNCHANGED pairs
     \/ /\ caKey.is = "key" /\ (authority.made \/ ~IsGood(leafCert)) /\ pairs < MaxPairs
        /\ pairs' = pairs + 1 /\ doing' = "leaf key"
  /\ UNCHANGED <<files, names, authority, served, ages, removed, supplied>>

\* issueLeaf: signed with the key on disk, whatever the authority's is.
WritesLeafKey ==
  /\ doing = "leaf key"
  /\ \/ leafKey.is = "key" /\ leafKey.pair # pairs /\ leafKey' = Half /\ UNCHANGED doing
     \/ leafKey' = KeyFile(pairs) /\ doing' = "leaf cert"
  /\ UNCHANGED <<caKey, caCert, leafCert, names, authority, served, pairs, ages, removed, supplied>>

WritesLeafCert ==
  /\ doing = "leaf cert"
  /\ \/ /\ leafCert.is = "cert" /\ leafCert.pair # pairs
        /\ leafCert' = Half /\ UNCHANGED <<doing, served>>
     \/ /\ leafCert' = LeafCert(pairs, caKey.pair, names)
        /\ served' = [cert |-> leafCert', key |-> leafKey]
        /\ doing' = "own"
  /\ UNCHANGED <<caKey, caCert, leafKey, names, authority, pairs, ages, removed, supplied>>

\* A certificate that is kept is served with the key beside it.
ReadsLeafKey ==
  /\ doing = "leaf read"
  /\ \/ leafKey = Nothing /\ doing' = "down" /\ UNCHANGED served
     \/ leafKey # Nothing /\ served' = [cert |-> leafCert, key |-> leafKey] /\ doing' = "own"
  /\ UNCHANGED <<files, names, authority, pairs, ages, removed, supplied>>

\* readSuppliedCertificate: one that has expired is shown all the same, and one
\* whose key is not its own, or that cannot be read, is refused.
ReadsSupplied ==
  /\ doing = "own"
  /\ \/ supplied' = Nothing /\ doing' = "up"
     \/ \E ns \in SUBSET Hostnames : supplied' = [is |-> "cert", names |-> ns] /\ doing' = "up"
     \/ UNCHANGED supplied /\ doing' = "down"
  /\ served' = IF doing' = "up" THEN served ELSE Nothing
  /\ UNCHANGED <<files, names, authority, pairs, ages, removed>>

\* Mutation: the operator's certificate to everybody.
ShownToAll(asked) == IF supplied.is = "cert" THEN supplied ELSE served.cert

\* chooseCertificate: what a caller that asks for a name is shown, and one that
\* dials an address, loreserver among them, asks for none.
Shown(asked) ==
  IF supplied.is = "cert" /\ asked \in supplied.names THEN supplied ELSE served.cert

\* Stopped, or killed, wherever it is.
Dies ==
  /\ doing # "down"
  /\ doing' = "down" /\ served' = Nothing /\ supplied' = Nothing
  /\ UNCHANGED <<files, names, authority, pairs, ages, removed>>

\* LEAF_RENEWAL_MARGIN_DAYS before its notAfter.
Ages ==
  /\ doing = "down" /\ ages < MaxAges
  /\ leafCert.is = "cert" /\ ~leafCert.old
  /\ leafCert' = [leafCert EXCEPT !.old = TRUE]
  /\ ages' = ages + 1
  /\ UNCHANGED <<caKey, caCert, leafKey, doing, names, authority, served, pairs, removed, supplied>>

\* What MissingAuthorityKeyError tells an operator to do.
RemovesAll ==
  /\ doing = "down" /\ removed < MaxRemoved
  /\ caKey' = Nothing /\ caCert' = Nothing /\ leafKey' = Nothing /\ leafCert' = Nothing
  /\ removed' = removed + 1
  /\ UNCHANGED <<doing, names, authority, served, pairs, ages, supplied>>

\* And what one may do who only wants a new fingerprint, or a key elsewhere.
RemovesOne ==
  /\ doing = "down" /\ removed < MaxRemoved
  /\ \/ caCert' = Nothing /\ UNCHANGED caKey
     \/ caKey' = Nothing /\ UNCHANGED caCert
  /\ removed' = removed + 1
  /\ UNCHANGED <<leafKey, leafCert, doing, names, authority, served, pairs, ages, supplied>>

CertNext ==
  \/ \E ns \in SUBSET Hostnames : StartsWith(ns)
  \/ WritesCaKey \/ WritesCaCert \/ ReadsCaKey
  \/ WritesLeafKey \/ WritesLeafCert \/ ReadsLeafKey
  \/ ReadsSupplied \/ Dies \/ Ages \/ RemovesAll \/ RemovesOne

-----------------------------------------------------------------------------
(* Properties.                                                             *)

\* What a caller is shown that asks for no name - loreserver, which trusts that
\* authority alone - chains to the authority whose fingerprint is announced,
\* and names what the server was started with, wherever earlier starts died and
\* whatever they were started with.
ShownChainsToTheAuthority ==
  doing = "up" =>
    LET shown == Shown("127.0.0.1")
    IN  /\ shown = served.cert
        /\ caCert = CaCert(authority.pair) /\ shown.signer = caCert.pair
        /\ names \subseteq shown.names

\* ensureCertificates "makes sure this storage root has an authority and a
\* usable endpoint certificate": the key it is served with is its own.
EndpointCertificateIsUsable == doing = "up" => served.key = KeyFile(served.cert.pair)
=============================================================================
