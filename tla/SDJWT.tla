-------------------------------- MODULE SDJWT --------------------------------
(***************************************************************************)
(* The SD-JWT library (pkg/sdjwt): a signed payload whose members may be   *)
(* replaced by digests of disclosures, a presentation that leaves some     *)
(* disclosures out, and the delegation by which the holder of the key a    *)
(* token names signs a further payload under it.                           *)
(*                                                                         *)
(* Cryptography is symbolic.  A digest is the term <<"hash", alg, what>>,  *)
(* a signed token the term <<"jwt", header, claims, key, k>> with the key  *)
(* that signed it and the randomness of the signature; keys carry their    *)
(* algorithm.  JSON values are tagged:    *)
(* <<"obj", f>> for a function f from member names, <<"arr", sequence>>,   *)
(* and leaves.  An _sd member holds the set of its digests, the sorted     *)
(* array of the code.                                                      *)
(***************************************************************************)
EXTENDS Integers, FiniteSets, Refusals

Obj(f) == <<"obj", f>>
Arr(q) == <<"arr", q>>
Str(s) == <<"str", s>>
Num(n) == <<"num", n>>

Content(v) == v[2]

\* Members of an object, and those of the optional ones that have a value: each
\* of these is a sequence of at most one.
With(f, optional) ==
    LET there == {k \in DOMAIN optional : optional[k] # <<>>}
    IN  [k \in DOMAIN f \cup there |-> IF k \in there THEN optional[k][1] ELSE f[k]]

Without(f, names) == [k \in DOMAIN f \ names |-> f[k]]

\* The elements of q at some positions, in their order.
Those(q, positions) ==
    FlattenSeq([i \in DOMAIN q |-> IF i \in positions THEN <<q[i]>> ELSE <<>>])

HashAlgs == {"sha-256", "sha-384", "sha-512"}
DefaultHashAlg == "sha-256"

Hash(alg, x) == <<"hash", alg, x>>

\* A disclosure of an array element has no name.
Unnamed == ""
Disclosure(salt, name, value) == <<"disclosure", salt, name, value>>
Name(d) == d[3]
Value(d) == d[4]
-----------------------------------------------------------------------------
\* The type header of a token that has none, and what a header may not name.
NoType == ""
Unsigned == {"", "none"}

\* Two signatures over the same claims differ in k.
SignJWT(key, typ, claims, k) ==
    <<"jwt", [alg |-> key.alg, typ |-> typ], claims, key, k>>
Claims(jwt) == jwt[3]

SignatureError(jwt, verifier) ==
    Refuse(jwt[2].alg \in Unsigned \/ jwt[2].alg # verifier.alg, "unsupported algorithm")
    ?? Refuse(jwt[4] # verifier, "signature invalid")

\* Every artefact is a JWS under the same few keys: the type tells them apart.
VerifyJWTError(jwt, typ, verifier) ==
    Refuse(jwt[2].typ # typ, "unexpected type") ?? SignatureError(jwt, verifier)
-----------------------------------------------------------------------------
sdClaim == "_sd"
sdAlgClaim == "_sd_alg"
arrayDigestKey == "..."

Reserved == {sdClaim, sdAlgClaim, arrayDigestKey}

IsObj(node) == node[1] = "obj"
IsArr(node) == node[1] = "arr"
IsLeaf(node) == ~IsObj(node) /\ ~IsArr(node)

\* arrayElementDigest: an element that stands for a withheld one.
Placeholder(digest) == Obj([c \in {arrayDigestKey} |-> digest])
IsPlaceholder(v) == IsObj(v) /\ DOMAIN Content(v) = {arrayDigestKey}
DigestIn(v) == Content(v)[arrayDigestKey]

\* The disclosure a digest commits to.
Committed(digest) == digest[3]

\* The digests a value holds itself, each with where in the value it is.
Digests(node) ==
    LET f == Content(node)
    IN  CASE IsObj(node) /\ sdClaim \in DOMAIN f -> {<<sdClaim, h>> : h \in Content(f[sdClaim])}
          [] IsArr(node) -> {<<i, DigestIn(f[i])>> : i \in {j \in DOMAIN f : IsPlaceholder(f[j])}}
          [] OTHER -> {}

\* The objects and arrays directly inside a value, those of shown disclosures
\* included, each with the steps that lead to it.
Inside(node, shown) ==
    LET f == Content(node)
        plain == IF IsObj(node) THEN DOMAIN f \ {sdClaim}
                 ELSE IF IsArr(node) THEN {i \in DOMAIN f : ~IsPlaceholder(f[i])}
                 ELSE {}
        all == {<<<<k>>, f[k]>> : k \in plain}
               \cup {<<d, Value(Committed(d[2]))>> : d \in {e \in Digests(node) : e[2] \in shown}}
    IN  {x \in all : ~IsLeaf(x[2])}

\* One level further in.
Deeper(found, shown) ==
    UNION {{<<x[1] \o y[1], y[2]>> : y \in Inside(x[2], shown)} : x \in found}

\* The objects and arrays that the walks of this library reach, with their places.
\* Nothing that is signed here nests deeper than three levels: what a token
\* holds, what that holds, and what a disclosed element holds (see process).
Within(node, shown) ==
    LET top == {<<<<>>, node>>}
        members == Deeper(top, shown)
        parts == Deeper(members, shown)
    IN  top \cup members \cup parts \cup Deeper(parts, shown)

rejectReserved(claims) ==
    \E x \in Within(Obj(claims), {}) :
        \/ Digests(x[2]) # {}
        \/ IsObj(x[2]) /\ DOMAIN Content(x[2]) \cap Reserved # {}

\* A path names a member, or every element of an array member.
Path(name, array) == [name |-> name, array |-> array]

BlindError(claims, paths) ==
    Refuse(rejectReserved(claims), "reserved claim")
    ?? Refuse(\E p \in paths : \/ p.name \notin DOMAIN claims
                               \/ p.array /\ ~IsArr(claims[p.name]), "no such claim")

\* Blind: the members on the paths become digests, and each its disclosure.
\* salt keeps the disclosures of two calls apart.
Blind(claims, paths, alg, salt) ==
    LET arrays == {p.name : p \in {q \in paths : q.array}}
        members == {p.name : p \in {q \in paths : ~q.array}}
        elements(a) == [i \in DOMAIN Content(claims[a]) |->
                          Disclosure(<<salt, a, i>>, Unnamed, Content(claims[a])[i])]
        member(n) == Disclosure(<<salt, n, 0>>, n, claims[n])
        hidden(a) == Arr([i \in DOMAIN elements(a) |-> Placeholder(Hash(alg, elements(a)[i]))])
        order == SetToSeq(arrays)
        disclosures == FlattenSeq([k \in DOMAIN order |-> elements(order[k])])
                       \o SetToSeq({member(n) : n \in members})
        added == [c \in {sdClaim, sdAlgClaim} |->
                    CASE c = sdClaim /\ members # {} ->
                            << <<"set", {Hash(alg, member(n)) : n \in members}>> >>
                      [] c = sdAlgClaim /\ disclosures # <<>> -> <<Str(alg)>>
                      [] OTHER -> <<>>]
    IN  [payload |-> With([c \in DOMAIN claims \ members |->
                             IF c \in arrays THEN hidden(c) ELSE claims[c]], added),
         disclosures |-> disclosures]

hashAlgOf(claims) ==
    IF sdAlgClaim \in DOMAIN claims THEN Content(claims[sdAlgClaim]) ELSE DefaultHashAlg

Issue(key, blinded, k) ==
    [jwt |-> SignJWT(key, NoType, blinded.payload, k), disclosures |-> blinded.disclosures]

SignedClaims(sd) == Claims(sd.jwt)
HashAlg(sd) == hashAlgOf(SignedClaims(sd))

\* Of a token or of a delegation: the last signed hop as presented.
SDHash(p) == Hash(hashAlgOf(Claims(p.jwt)), <<"presented", p.jwt, p.disclosures>>)
-----------------------------------------------------------------------------
collectDigests(node) == {d[2] : d \in UNION {Digests(x[2]) : x \in Within(node, {})}}

\* The digests that claims and what is kept of its disclosures lead to: each
\* round opens another disclosure or is the last.
Reached(kept, claims, alg) ==
    LET reached[n \in 0..Cardinality(kept)] ==
            IF n = 0 THEN collectDigests(Obj(claims))
            ELSE reached[n - 1] \cup UNION {collectDigests(Value(d)) :
                                            d \in {e \in kept : Hash(alg, e) \in reached[n - 1]}}
    IN  reached[Cardinality(kept)]

\* A disclosure kept without the one that holds its digest proves nothing.
Reachable(kept, claims, alg) ==
    {Hash(alg, d) : d \in ToSet(kept)} \subseteq Reached(ToSet(kept), claims, alg)

PresentError(sd, kept) ==
    Refuse(HashAlg(sd) \notin HashAlgs, "unsupported hash algorithm")
    ?? Refuse(~Reachable(kept, SignedClaims(sd), HashAlg(sd)), "disclosure unreachable")

Present(sd, kept) == [sd EXCEPT !.disclosures = kept]
-----------------------------------------------------------------------------
\* The digests the processor meets, each with the place it meets it at, those
\* inside what it discloses included.
encounter(found) ==
    UNION {{<<x[1] \o <<d[1]>>, d[2]>> : d \in Digests(x[2])} : x \in found}

\* What is shown put back and the rest left out, of what an object or an array
\* holds itself.
processObject(f, shown) ==
    LET sd == IF sdClaim \in DOMAIN f THEN Content(f[sdClaim]) \cap shown ELSE {}
    IN  [k \in (DOMAIN f \ {sdClaim}) \cup {Name(Committed(h)) : h \in sd} |->
            IF k \in DOMAIN f THEN f[k]
            ELSE Value(Committed(CHOOSE h \in sd : Name(Committed(h)) = k))]

processArray(q, shown) ==
    LET element(v) == IF IsPlaceholder(v) THEN Value(Committed(DigestIn(v))) ELSE v
    IN  Those([i \in DOMAIN q |-> element(q[i])],
              {i \in DOMAIN q : IsPlaceholder(q[i]) => DigestIn(q[i]) \in shown})

processNode(node, shown) ==
    IF IsObj(node) THEN processObject(Content(node), shown) ELSE processArray(Content(node), shown)

\* And of what those hold.  A value that is nested deeper than three levels has
\* no processed form.
processLeaf(node) == CASE IsLeaf(node) -> node

processElement(node, shown) ==
    LET held == processNode(node, shown)
    IN  IF IsLeaf(node) THEN node
        ELSE <<node[1], [k \in DOMAIN held |-> processLeaf(held[k])]>>

processMember(node, shown) ==
    LET held == processNode(node, shown)
    IN  IF IsLeaf(node) THEN node
        ELSE <<node[1], [k \in DOMAIN held |-> processElement(held[k], shown)]>>

process(node, shown) ==
    LET held == processNode(node, shown)
    IN  IF IsLeaf(node) THEN node
        ELSE <<node[1], [k \in DOMAIN held |-> processMember(held[k], shown)]>>

\* Every shown disclosure sits where its kind belongs, under a free name.
FitsObject(f, shown) ==
    LET sd == IF sdClaim \in DOMAIN f THEN Content(f[sdClaim]) \cap shown ELSE {}
        name(h) == Name(Committed(h))
    IN  /\ arrayDigestKey \notin DOMAIN f
        /\ \A h \in sd : /\ name(h) \notin {Unnamed, sdClaim, arrayDigestKey}
                         /\ name(h) \notin DOMAIN f
        /\ \A g, h \in sd : name(g) = name(h) => g = h

FitsArray(q, shown) ==
    \A i \in DOMAIN q :
        IsPlaceholder(q[i]) /\ DigestIn(q[i]) \in shown => Name(Committed(DigestIn(q[i]))) = Unnamed

Fits(found, shown) ==
    \A x \in found :
        /\ IsObj(x[2]) => FitsObject(Content(x[2]), shown)
        /\ IsArr(x[2]) => FitsArray(Content(x[2]), shown)

\* newProcessor, process and checkAllUsed over one signed value.
ProcessError(node, disclosures, alg) ==
    LET digests == {Hash(alg, d) : d \in ToSet(disclosures)}
        found == Within(node, digests)
        met == encounter(found)
    IN  Refuse(\/ \E i, j \in DOMAIN disclosures : i # j /\ disclosures[i] = disclosures[j]
               \/ \E d, e \in met : d[2] = e[2] /\ d # e, "digest repeated")
        ?? Refuse(~Fits(found, digests), "claim conflict")
        ?? Refuse(~(digests \subseteq {e[2] : e \in met}), "disclosure unmatched")

Processed(node, disclosures, alg) ==
    process(node, {Hash(alg, d) : d \in ToSet(disclosures)})

checkValidity(payload, now) ==
    Refuse("exp" \in DOMAIN payload /\ ~(now < Content(payload["exp"])), "expired")
    ?? Refuse("nbf" \in DOMAIN payload /\ now < Content(payload["nbf"]), "not yet valid")

Payload(sd) ==
    Without(Content(Processed(Obj(SignedClaims(sd)), sd.disclosures, HashAlg(sd))), {sdAlgClaim})

\* Verify, of a token no key binding is asked of: no role asks for one.
VerifyError(sd, issuer, now) ==
    SignatureError(sd.jwt, issuer)
    ?? Refuse(HashAlg(sd) \notin HashAlgs, "unsupported hash algorithm")
    ?? ProcessError(Obj(SignedClaims(sd)), sd.disclosures, HashAlg(sd))
    ?? checkValidity(Payload(sd), now)
-----------------------------------------------------------------------------
DelegateType == "kb+sd-jwt"

\* kb is the challenge answered: [nonce, aud, iat], of nonce 0 or to no one
\* for none.
NoOne == ""

DelegateError(sd, kb, content, disclosures, alg) ==
    Refuse(kb.nonce = 0 \/ kb.aud = NoOne, "key binding invalid")
    ?? Refuse(DOMAIN content = {}, "delegate payload invalid")
    ?? Refuse(HashAlg(sd) \notin HashAlgs, "unsupported hash algorithm")
    ?? Refuse(~Reachable(disclosures, Without(content, {sdAlgClaim}), alg),
              "disclosure unreachable")

\* The payload travels as the one element of delegate_payload, disclosed first;
\* sd_hash commits to the token with the disclosures it is shown with.
Delegate(sd, key, kb, content, disclosures, alg, salt) ==
    LET wrapper == Disclosure(<<salt, "delegate_payload", 1>>, Unnamed,
                              Obj(Without(content, {sdAlgClaim})))
        stated == [nonce |-> Num(kb.nonce), aud |-> Str(kb.aud), iat |-> Num(kb.iat),
                   sd_hash |-> SDHash(sd),
                   delegate_payload |-> Arr(<<Placeholder(Hash(alg, wrapper))>>)]
        claims == With(stated, [c \in {sdAlgClaim} |-> <<Str(alg)>>])
    IN  [root |-> sd, jwt |-> SignJWT(key, DelegateType, claims, salt),
         disclosures |-> <<wrapper>> \o disclosures]

\* One binding, and of the two the one that covers the disclosures as shown.
bindingError(chain, claims, requireSDHash) ==
    LET has(name) == name \in DOMAIN claims
        bound == \/ has("sd_hash") /\ claims["sd_hash"] = SDHash(chain.root)
                 \/ /\ has("issuer_jwt_hash") /\ ~requireSDHash
                    /\ claims["issuer_jwt_hash"] = Hash(HashAlg(chain.root), chain.root.jwt)
    IN  Refuse(has("sd_hash") = has("issuer_jwt_hash") \/ ~bound, "key binding invalid")

\* Slip: the audience is compared and the challenge is not.
freshnessUnchallenged(claims, want, now) ==
    Refuse(Content(claims["aud"]) # want.aud, "key binding invalid")

\* A maximum age of 0 asks for none.
freshnessError(claims, want, now) ==
    LET age == now - Content(claims["iat"])
    IN  Refuse(\/ Content(claims["nonce"]) # want.nonce
               \/ Content(claims["aud"]) # want.aud
               \/ want.maxAge > 0 /\ ~(age \in -want.maxAge..want.maxAge),
               "key binding invalid")

Delegating(chain) == Claims(chain.jwt)
DelegatedHashAlg(chain) == hashAlgOf(Delegating(chain))

\* The delegated payload, when exactly one element is shown.
Elements(chain) ==
    Content(Processed(Delegating(chain)["delegate_payload"], chain.disclosures,
                      DelegatedHashAlg(chain)))
Delegated(chain) == Without(Content(Elements(chain)[1]), {sdAlgClaim})

\* want is what this verifier asks of the delegation: [nonce, aud, maxAge,
\* requireSDHash].  VerifyChain checks the token, asks its caller for the key
\* its cnf names, and checks the delegation under that key.
ChainRootError(chain, issuer, want, now) ==
    Refuse(want.nonce = 0 \/ want.aud = NoOne, "invalid options")
    ?? VerifyError(chain.root, issuer, now)
    ?? Refuse("cnf" \notin DOMAIN Payload(chain.root), "key binding invalid")

ChainDelegationError(chain, key, want, now) ==
    Refuse(chain.jwt[2].typ # DelegateType, "key binding invalid")
    ?? SignatureError(chain.jwt, key)
    ?? bindingError(chain, Delegating(chain), want.requireSDHash)
    ?? freshnessError(Delegating(chain), want, now)
    ?? Refuse(DelegatedHashAlg(chain) \notin HashAlgs, "unsupported hash algorithm")
    ?? ProcessError(Delegating(chain)["delegate_payload"], chain.disclosures,
                    DelegatedHashAlg(chain))
    ?? Refuse(Len(Elements(chain)) # 1, "delegate payload invalid")
    ?? checkValidity(Delegated(chain), now)
=============================================================================
