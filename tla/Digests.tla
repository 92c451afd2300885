-------------------------------- MODULE Digests --------------------------------
(***************************************************************************)
(* The framing of what a person authorises,                                *)
(* rust/fhs/src/authorization.rs: lengths before texts, a domain before    *)
(* all, and the digests of fragments and of files in IPFS.                 *)
(*                                                                         *)
(* A digest is SHA-256 of the bytes it frames, and those bytes stand for   *)
(* it.  The domains stand by one letter.                                   *)
(***************************************************************************)
EXTENDS Texts

\* The lengths that 32 bits count, and the texts that have one.
Sizes == {n \in Nat : n \div (256 * 256 * 256) < 256}
Octets == Seq(0..255)
Bytes == {text \in Octets : Len(text) \in Sizes}
Lists == {texts \in Seq(Bytes) : Len(texts) \in Sizes}

\* (len as u32).to_be_bytes().
PushLen(n) ==
    <<(n \div (256 * 256 * 256)) % 256, (n \div (256 * 256)) % 256, (n \div 256) % 256, n % 256>>

\* Mutant: the bytes without their length.
PushBare(bytes) == bytes

PushBytes(bytes) == PushLen(Len(bytes)) \o bytes
PushAll(texts) == FlattenSeq([i \in DOMAIN texts |-> PushBytes(texts[i])])
PushList(texts) == PushLen(Len(texts)) \o PushAll(texts)

\* SHA-256 of the domain, the version "1" and the body, each after a zero.
Framed(domain, body) == domain \o <<0, 49, 0>> \o body

DomainArgs == <<97>>
DomainDocument == <<100>>
DomainIpfs == <<105>>
DomainBatch == <<98>>
DomainQuery == <<113>>
DomainTool == <<116>>

IpfsDigest(cid, content) ==
    Framed(DomainIpfs, PushBytes(cid) \o PushBytes(Framed(DomainDocument, content)))

ChunksDigest(domain, chunks) == Framed(domain, PushList(chunks))

-----------------------------------------------------------------------------
\* Texts that fit in a message, also when they are the content of a file (the
\* digest of a document has a length too; it stands by what it is of).
IsFiles(texts) ==
    /\ texts \in Lists
    /\ \A i \in DOMAIN texts : Framed(DomainDocument, texts[i]) \in Bytes

\* Neither a set of fragments nor a file in IPFS has the digest of another:
\* not of what has the same bytes cut elsewhere, and not across domains.
FilesToldApart(domain, chunks, other, others) ==
    /\ (ChunksDigest(domain, chunks) = ChunksDigest(other, others))
           <=> (domain = other /\ chunks = others)
    /\ Len(chunks) = 2 =>
           /\ IpfsDigest(chunks[1], chunks[2]) # ChunksDigest(other, others)
           /\ Len(others) = 2 =>
                  ((IpfsDigest(chunks[1], chunks[2]) = IpfsDigest(others[1], others[2]))
                      <=> (chunks = others))
===============================================================================
