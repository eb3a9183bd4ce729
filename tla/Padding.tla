------------------------------ MODULE Padding -------------------------------
(***************************************************************************)
(* The AES data cipher of the older vpn package, in its two versions       *)
(* (src/vpn/ciphers.go and src/vpn/crypto.go): newDataCipherFromCipherSuite*)
(* and newDataCipher, encrypt (crypto.go), both decrypt methods with their *)
(* key-size and IV checks, the CBC and GCM branches, and PKCS#7 padding:   *)
(* cipherPadTextPKCS7 and cipherUnpadTextPKCS7 (ciphers.go), and           *)
(* bytesUnpadPKCS7, which crypto.go calls and whose body is not in this    *)
(* tree (it is modelled from the spec and its tests in part_006).          *)
(*                                                                         *)
(* One packet's life: the cipher is built from the suite name; the         *)
(* plaintext is padded (CBC) and encrypted with the key material; the      *)
(* receiver decrypts what arrives.  AES and GCM are opaque: CBC decryption *)
(* of what CBC encryption produced gives back the padded bytes, so for CBC *)
(* the wire holds those bytes, and for GCM the wire holds the plaintext    *)
(* and Open succeeds exactly on an untampered packet.  Tamper replaces the *)
(* packet: for CBC by any block-aligned bytes (what CryptBlocks yields for *)
(* a ciphertext this padding did not make), and for either mode by an IV   *)
(* of any length in IvLens (a short or malformed packet).                  *)
(*                                                                         *)
(* Bytes are 0..ByteTop.  Every padding guard compares a byte with the     *)
(* block size or a length, all below ByteTop, so ByteTop stands for every  *)
(* larger byte value as well.  BS is the block size as the padding sees it *)
(* (taken small); the IV checks compare with AES's real 16 and GCM's 12.   *)
(***************************************************************************)
EXTENDS Naturals, Sequences

CONSTANTS
    BS,       \* block.BlockSize() for the padding: 16 for AES; any size up to 255 here
    MaxLen,   \* longest plaintext
    ByteTop,  \* largest byte value told apart
    KeyLens,  \* lengths of the key material handed to encrypt and decrypt
    IvLens    \* lengths an IV on the wire may have

ASSUME PaddingAssumption ==
    /\ BS \in 1..255
    /\ MaxLen \in Nat
    /\ ByteTop \in Nat /\ ByteTop > BS
    /\ KeyLens \subseteq Nat
    /\ IvLens \subseteq Nat

Bytes == 0..ByteTop

Outcomes == {"none", "ok", "panic", "errPadding", "errUnpadding",
             "errKeySize", "errIV", "errAuth"}

(* aes.BlockSize, and the GCM nonce size both decrypt methods expect.       *)
AESBlockSize == 16
GCMNonceSize == 12

(* The suite names newDataCipherFromCipherSuite knows, with the bits and   *)
(* mode it passes to newDataCipher, and a name it does not know.           *)
SuiteTable ==
    {[name |-> "AES-128-CBC", bits |-> 128, mode |-> "cbc"],
     [name |-> "AES-192-CBC", bits |-> 192, mode |-> "cbc"],
     [name |-> "AES-256-CBC", bits |-> 256, mode |-> "cbc"],
     [name |-> "AES-128-GCM", bits |-> 128, mode |-> "gcm"],
     [name |-> "AES-256-GCM", bits |-> 256, mode |-> "gcm"]}

Suites == {r.name : r \in SuiteTable} \cup {"BF-CBC"}

(* What a constructor returns: the error ("none" for nil), and the         *)
(* cipher's key size in bytes and mode.                                    *)
Cipher(e, k, m) == [err |-> e, ksb |-> k, mode |-> m]

(* newDataCipher: the bit-size check, then the mode check.                 *)
NewDataCipher(bits, mode) ==
    IF bits % 8 # 0 \/ bits > 512 \/ bits < 64
    THEN Cipher("errInvalidKeySize", 0, "none")
    ELSE IF mode \notin {"cbc", "gcm"}
    THEN Cipher("errUnsupportedMode", 0, "none")
    ELSE Cipher("none", bits \div 8, mode)

(* newDataCipherFromCipherSuite: the switch on the suite name.             *)
NewDataCipherFromCipherSuite(c) ==
    IF \E r \in SuiteTable : r.name = c
    THEN LET r == CHOOSE r \in SuiteTable : r.name = c
         IN  NewDataCipher(r.bits, r.mode)
    ELSE Cipher("errUnsupportedCipher", 0, "none")

(* aes.NewCipher accepts keys of 16, 24 and 32 bytes.                       *)
AESKeyOK(n) == n \in {16, 24, 32}

VARIABLES
    suite,     \* the cipher-suite name the data channel is built from
    keyLen,    \* the length of the key material
    plain,     \* the sender's plaintext
    encErr,    \* encrypt returned an error: nothing was sent
    sent,      \* the packet was encrypted and sent
    wire,      \* CBC: what CryptBlocks gives the receiver; GCM: the sealed plaintext
    iv,        \* the length of the IV the receiver gets (0 before)
    tampered,  \* the packet no longer is the one the sender made
    out1,      \* what ciphers.go's decrypt returned ("none" before)
    out2       \* what crypto.go's decrypt returned ("none" before)

vars == <<suite, keyLen, plain, encErr, sent, wire, iv, tampered, out1, out2>>

(* The data cipher built from the suite (fixed for a run).                 *)
DC == NewDataCipherFromCipherSuite(suite)

-----------------------------------------------------------------------------
(* cipherPadTextPKCS7 with no full block added to an aligned buffer: the   *)
(* special case the TODO in the code asks about.                           *)
PadTextNoFullBlock(buf, bs) ==
    LET padding == (bs - (Len(buf) % bs)) % bs
    IN  buf \o [i \in 1..padding |-> padding]

(* cipherPadTextPKCS7 with one padding byte too few.                      *)
PadTextShort(buf, bs) ==
    LET padding == bs - (Len(buf) % bs) - 1
    IN  buf \o [i \in 1..padding |-> padding]

(* cipherPadTextPKCS7: bs - len(buf) % bs bytes, each of that value.       *)
PadText(buf, bs) ==
    LET padding == bs - (Len(buf) % bs)
    IN  buf \o [i \in 1..padding |-> padding]

(* cipherUnpadTextPKCS7: drop as many bytes as the last byte says.  Go     *)
(* panics on buf[len(buf)-1] of an empty buffer and on a slice bound       *)
(* below 0.                                                                *)
UnpadPanics(buf) == Len(buf) = 0 \/ buf[Len(buf)] > Len(buf)

UnpadText(buf) == SubSeq(buf, 1, Len(buf) - buf[Len(buf)])

(* What a decrypt call returns: an error, or bytes.                        *)
Result(r, d) == [res |-> r, data |-> d]

(* The check both decrypt methods make after unpadding.                    *)
PadLenBad(ct, pt) ==
    Len(ct) - Len(pt) > BS \/ Len(ct) - Len(pt) > Len(pt)

(* The CBC branch of dataCipherAES.decrypt in ciphers.go, after           *)
(* CryptBlocks: unpad, then the padLen check.                              *)
CipherCBC(ct) ==
    IF UnpadPanics(ct) THEN Result("panic", << >>)
    ELSE IF PadLenBad(ct, UnpadText(ct)) THEN Result("errPadding", << >>)
    ELSE Result("ok", UnpadText(ct))

(* dataCipherAES.decrypt in ciphers.go for cipher c, key material of kl    *)
(* bytes, bytes ct and an IV of v bytes.  The key must be exactly ksb      *)
(* bytes.  CBC slices iv[:BlockSize()], which panics on a shorter IV;      *)
(* GCM's Open panics on a nonce that is not 12 bytes long and fails on a   *)
(* packet that is not authentic.                                           *)
CipherDecrypt(c, kl, ct, v, authentic) ==
    IF kl # c.ksb \/ ~AESKeyOK(kl) THEN Result("errKeySize", << >>)
    ELSE IF c.mode = "cbc"
    THEN IF v < AESBlockSize THEN Result("panic", << >>) ELSE CipherCBC(ct)
    ELSE IF v # GCMNonceSize THEN Result("panic", << >>)
    ELSE IF authentic THEN Result("ok", ct)
    ELSE Result("errAuth", << >>)

(* bytesUnpadPKCS7 without the check that all padding bytes agree.         *)
BytesUnpadLooseRejects(buf, bs) ==
    LET n == Len(buf)
    IN  n = 0 \/ n % bs # 0 \/ buf[n] = 0 \/ buf[n] > bs

(* bytesUnpadPKCS7, as its tests and the spec describe it: reject an empty *)
(* or unaligned buffer, a padding byte of 0 or above the block size, and   *)
(* padding bytes that disagree; otherwise drop the padding.                *)
BytesUnpadRejects(buf, bs) ==
    LET n == Len(buf)
    IN  \/ n = 0 \/ n % bs # 0 \/ buf[n] = 0 \/ buf[n] > bs
        \/ \E i \in (n - buf[n] + 1)..n : buf[i] # buf[n]

BytesUnpad(buf) == SubSeq(buf, 1, Len(buf) - buf[Len(buf)])

(* The CBC branch of dataCipherAES.decrypt in crypto.go, after           *)
(* CryptBlocks: bytesUnpadPKCS7, then the padLen check.                    *)
CryptoCBC(ct) ==
    IF BytesUnpadRejects(ct, BS) THEN Result("errUnpadding", << >>)
    ELSE IF PadLenBad(ct, BytesUnpad(ct)) THEN Result("errPadding", << >>)
    ELSE Result("ok", BytesUnpad(ct))

(* Mutant: crypto.go's decrypt with ciphers.go's key check, which wants    *)
(* the key material to be exactly ksb bytes.                               *)
CryptoDecryptExactKey(c, kl, ct, v, authentic) ==
    IF kl # c.ksb \/ ~AESKeyOK(c.ksb) THEN Result("errKeySize", << >>)
    ELSE IF c.mode = "cbc"
    THEN IF v # AESBlockSize THEN Result("errIV", << >>) ELSE CryptoCBC(ct)
    ELSE IF v # GCMNonceSize THEN Result("errIV", << >>)
    ELSE IF authentic THEN Result("ok", ct)
    ELSE Result("errAuth", << >>)

(* dataCipherAES.decrypt in crypto.go: key material of at least ksb bytes, *)
(* of which the first ksb are used; an IV of the block size for CBC and of *)
(* 12 bytes for GCM, else errBadInput; then the mode's branch.             *)
CryptoDecrypt(c, kl, ct, v, authentic) ==
    IF kl < c.ksb \/ ~AESKeyOK(c.ksb) THEN Result("errKeySize", << >>)
    ELSE IF c.mode = "cbc"
    THEN IF v # AESBlockSize THEN Result("errIV", << >>) ELSE CryptoCBC(ct)
    ELSE IF v # GCMNonceSize THEN Result("errIV", << >>)
    ELSE IF authentic THEN Result("ok", ct)
    ELSE Result("errAuth", << >>)

-----------------------------------------------------------------------------
(* Reference PKCS#7 (RFC 5652, 6.3): a buffer is well padded when its      *)
(* length is a positive multiple of the block size and it ends in k bytes  *)
(* of value k, for some k in 1..BS; unpadding a well-padded buffer removes *)
(* them, and any other buffer must be rejected.                            *)
WellPadded(buf) ==
    /\ Len(buf) > 0
    /\ Len(buf) % BS = 0
    /\ buf[Len(buf)] \in 1..BS
    /\ \A i \in 1..buf[Len(buf)] : buf[Len(buf) + 1 - i] = buf[Len(buf)]

RefUnpad(buf) == [i \in 1..(Len(buf) - buf[Len(buf)]) |-> buf[i]]

-----------------------------------------------------------------------------
Plaintexts == UNION {[1..n -> Bytes] : n \in 0..MaxLen}

(* Block-aligned buffers no longer than a padded longest plaintext.        *)
Aligned == UNION {[1..(k * BS) -> Bytes] : k \in 0..((MaxLen \div BS) + 1)}

(* A CBC cipher was built.                                                  *)
IsCBC == DC.err = "none" /\ DC.mode = "cbc"

Init ==
    /\ suite \in Suites
    /\ keyLen \in KeyLens
    /\ plain \in Plaintexts
    /\ encErr = FALSE
    /\ sent = FALSE
    /\ wire = << >>
    /\ iv = 0
    /\ tampered = FALSE
    /\ out1 = Result("none", << >>)
    /\ out2 = Result("none", << >>)

(* The sender: the caller pads a CBC plaintext, and crypto.go's encrypt    *)
(* checks the key material (at least ksb bytes), builds the AES block from *)
(* its first ksb bytes and encrypts: CBC with a 16-byte IV, GCM Seal with  *)
(* a 12-byte nonce.  A short key is errInvalidKeySize: nothing is sent.    *)
Encrypt ==
    /\ DC.err = "none"
    /\ ~sent /\ ~encErr
    /\ IF keyLen < DC.ksb \/ ~AESKeyOK(DC.ksb)
       THEN /\ encErr' = TRUE
            /\ UNCHANGED <<sent, wire, iv>>
       ELSE /\ sent' = TRUE
            /\ wire' = IF IsCBC THEN PadText(plain, BS) ELSE plain
            /\ iv' = IF IsCBC THEN AESBlockSize ELSE GCMNonceSize
            /\ UNCHANGED encErr
    /\ UNCHANGED <<suite, keyLen, plain, tampered, out1, out2>>

(* The packet is replaced before the receiver decrypts it: CBC bytes by    *)
(* other block-aligned bytes, or the IV by one of another length; a GCM    *)
(* packet by any other (its IV length is what decrypt looks at).           *)
Tamper ==
    /\ sent /\ ~tampered
    /\ out1.res = "none" /\ out2.res = "none"
    /\ \/ /\ IsCBC
          /\ \E w \in Aligned \ {wire} : wire' = w
          /\ UNCHANGED iv
       \/ /\ \E v \in IvLens \ {iv} : iv' = v
          /\ UNCHANGED wire
       \/ /\ ~IsCBC
          /\ UNCHANGED <<wire, iv>>
    /\ tampered' = TRUE
    /\ UNCHANGED <<suite, keyLen, plain, encErr, sent, out1, out2>>

DecryptCipher ==
    /\ sent /\ out1.res = "none"
    /\ out1' = CipherDecrypt(DC, keyLen, wire, iv, ~tampered)
    /\ UNCHANGED <<suite, keyLen, plain, encErr, sent, wire, iv, tampered, out2>>

DecryptCrypto ==
    /\ sent /\ out2.res = "none"
    /\ out2' = CryptoDecrypt(DC, keyLen, wire, iv, ~tampered)
    /\ UNCHANGED <<suite, keyLen, plain, encErr, sent, wire, iv, tampered, out1>>

Next == Encrypt \/ Tamper \/ DecryptCipher \/ DecryptCrypto

Spec == Init /\ [][Next]_vars

-----------------------------------------------------------------------------
(* The type invariant; a CBC wire is block-aligned, as CryptBlocks needs.  *)
TypeOK ==
    /\ suite \in Suites /\ keyLen \in KeyLens
    /\ plain \in Seq(Bytes) /\ Len(plain) <= MaxLen
    /\ encErr \in BOOLEAN /\ sent \in BOOLEAN /\ tampered \in BOOLEAN
    /\ wire \in Seq(Bytes) /\ (IsCBC => Len(wire) % BS = 0)
    /\ iv \in IvLens \cup {0, AESBlockSize, GCMNonceSize}
    /\ out1 \in [res : Outcomes, data : Seq(Bytes)]
    /\ out2 \in [res : Outcomes, data : Seq(Bytes)]

(* cipherPadTextPKCS7 produces a well-padded, block-aligned buffer from    *)
(* which the reference unpadding gives the plaintext back: an aligned      *)
(* plaintext gets a whole block of padding, the case its TODO asks about.  *)
PadInvertible ==
    sent /\ ~tampered /\ IsCBC => WellPadded(wire) /\ RefUnpad(wire) = plain

(* crypto.go's decrypt returns bytes only for a packet it can vouch for:   *)
(* with CBC, a well-padded buffer, and then exactly its reference          *)
(* unpadding (malformed padding is rejected); with GCM, an authentic       *)
(* packet, and then the sender's plaintext.                                *)
CryptoDecryptSound ==
    out2.res = "ok" =>
        IF IsCBC THEN WellPadded(wire) /\ out2.data = RefUnpad(wire)
                 ELSE ~tampered /\ out2.data = plain

(* crypto.go's encrypt and decrypt accept the same key material and IVs:   *)
(* key material longer than the key (as prf derives it) is cut to ksb     *)
(* bytes on both sides, so a packet that arrives as it was sent is never   *)
(* refused for its key or its IV, in either mode.                          *)
ChecksAgree ==
    sent /\ ~tampered => out2.res \notin {"errKeySize", "errIV"}

(* ciphers.go's decrypt never panics, whatever block-aligned bytes         *)
(* CryptBlocks yields and whatever IV arrives, and returns bytes from CBC  *)
(* only for a well-padded buffer, exactly its reference unpadding (spec 6: *)
(* unpad rejects malformed padding).                                       *)
CipherUnpadSafe ==
    /\ out1.res # "panic"
    /\ out1.res = "ok" /\ IsCBC => WellPadded(wire) /\ out1.data = RefUnpad(wire)

(* decrypt(encrypt(P)) = P for every plaintext (spec 6): crypto.go's      *)
(* decrypt of an untampered packet returns the sender's plaintext.        *)
DecryptInvertsEncrypt ==
    ~tampered /\ out2.res # "none" => out2 = Result("ok", plain)

=============================================================================
