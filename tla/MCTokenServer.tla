----------------------------- MODULE MCTokenServer -----------------------------
(***************************************************************************)
(* Model-checking instance of TokenServer.                                 *)
(***************************************************************************)
EXTENDS TokenServer

MCTokenKey == {[number |-> 1, alg |-> "EcdsaP256"], [number |-> 2, alg |-> "EcdsaP384"],
               [number |-> 3, alg |-> "EcdsaP384"], [number |-> 4, alg |-> "Rsa2048"],
               [number |-> 5, alg |-> "Ed25519"]}

MCOneKey == {[number |-> 1, alg |-> "EcdsaP256"]}

\* A host, the wildcards beside it and below it, and the empty name.
MCHostPattern == {<<"a", ".", "a">>, <<"*", ".", "a">>, <<"*", ".", "a", ".", "a">>, EmptyName}

\* A map with the empty name, and a host that is not in it.
MCEmptyPattern == {EmptyName}
MCOneHost == {<<"a">>}

\* Every name of up to five characters that can be written with one letter.
MCHostName == UNION {[1..n -> {"a", "."}] : n \in 1..5}

\* A client of this crate, one that cannot use P-384, and one that only has PKCS#1.
MCFullOffer == {SupportedSchemes}
MCOffer == MCFullOffer \cup {{"ECDSA_NISTP256_SHA256", "RSA_PSS_SHA256"}, Pkcs1Schemes}

\* Leading zeros, high bits, zero, and a first byte that looks like a tag; and the
\* longest encoding.
MCByte == {0, 1, 48, 128}
MCRawSignature == {<<r, <<1, 128>>>> : r \in [1..2 -> MCByte]}
                  \cup {<<<<1, 128>>, s>> : s \in [1..2 -> MCByte]}
                  \cup {<<[n \in 1..48 |-> 255], [n \in 1..48 |-> 128]>>}

MCPlainSignature == {<<<<1, 2>>, <<3, 4>>>>}

\* Names are resolved with two fixed keys under labels that fit, and keys are used
\* without names: neither makes a difference to the other.
NamesOnly ==
    /\ \A l \in KeyLabel : tokenKeys'[l] \in {NoKey} \cup {k \in TokenKey : k.alg = "EcdsaP384"}
    /\ resolver # NoResolver => tokenKeys' = tokenKeys
    /\ resolver' # resolver => /\ \A l, m \in KeyLabel : l # m => tokenKeys[l] # tokenKeys[m]
                               /\ \A l \in KeyLabel : tokenKeys[l] # NoKey
    /\ resolver' # resolver => \A h \in DOMAIN resolver'.map :
          resolver'.map[h].cert = tokenCerts[resolver'.map[h].label]
    /\ shake'.phase \in {"waiting", "resolved", "unresolved"}

KeysOnly ==
    /\ \A l \in KeyLabel : l # (CHOOSE m \in KeyLabel : TRUE) => tokenKeys'[l] \in {NoKey} \cup {k \in TokenKey : k.number = 3}
    /\ resolver' # resolver => resolver'.default # {}
    /\ shake'.phase = "resolved" => shake'.name = NoName
    /\ shake'.phase # "unresolved"
=============================================================================
