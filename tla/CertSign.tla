------------------------------ MODULE CertSign ------------------------------
(***************************************************************************)
(* The certificate functions of net/ssl/SSLHelper.h: the CA's certificate  *)
(* and key are loaded from files, signCert makes a certificate like        *)
(* org_cert and a fresh key, and storeX509ToPEMStr writes it out.  Every   *)
(* call of OpenSSL may fail, and each failure has its own list of objects  *)
(* to free.                                                                *)
(*                                                                         *)
(* The model counts the references to the objects of each kind; names,     *)
(* dates and serial numbers are left out.                                  *)
(***************************************************************************)
EXTENDS Integers, Sequences

CONSTANTS
    OrgExtensions,  \* the extension lists org_cert may have
    Set1Results     \* what EVP_PKEY_set1_RSA may return: 1, or 0 when it fails

\* OpenSSL never returns a negative value here.
CertAssumption ==
    Set1Results \subseteq Nat /\ OrgExtensions \subseteq Seq({"subjectAltName", "other"})

Kinds == {"bio", "bn", "rsa", "serial", "pkey", "cert"}

VARIABLES
    pc,         \* the next step
    refs,       \* by kind, the references held
    ca_cert, ca_pkey,   \* whether the loaders returned an object
    exts,       \* the extensions of org_cert
    cert, pkey, \* the caller's pointers *cert and *pkey
    keyed,      \* *pkey holds the RSA key
    copied,     \* the extensions of *cert
    ret         \* what signCert returned

certs == <<ca_cert, ca_pkey, exts>>
out == <<cert, pkey, keyed, copied>>
vars == <<pc, refs, certs, out, ret>>

CertTypeOK ==
    /\ refs \in [Kinds -> Nat]
    /\ ca_cert \in BOOLEAN /\ ca_pkey \in BOOLEAN /\ exts \in OrgExtensions
    /\ cert \in {"unset", "null", "object"} /\ pkey \in {"unset", "null", "object"}
    /\ keyed \in BOOLEAN /\ copied \in Seq({"subjectAltName", "other"})
    /\ ret \in {"none", "true", "false"}

Init ==
    /\ pc = "loadCert" /\ refs = [k \in Kinds |-> 0]
    /\ ca_cert = FALSE /\ ca_pkey = FALSE /\ exts \in OrgExtensions
    /\ cert = "unset" /\ pkey = "unset" /\ keyed = FALSE /\ copied = <<>> /\ ret = "none"

New(k) == refs' = [refs EXCEPT ![k] = @ + 1]

\* The last reference to *pkey takes the RSA key it holds with it.
Without(ks) ==
    [k \in Kinds |-> refs[k] - (IF k \in ks \/ (k = "rsa" /\ "pkey" \in ks /\ keyed)
                                THEN 1 ELSE 0)]

Return(b) == ret' = b /\ pc' = "returned"

Load(from, to) == pc = from /\ pc' = to

\* Both loaders make a BIO and free it on every path.
loadX509FromFile ==
    \/ Load("loadCert", "readCert") /\ New("bio") /\ UNCHANGED <<certs, out, ret>>
    \/ /\ Load("readCert", "loadKey")
       /\ refs' = Without({"bio"})
       /\ ca_cert' \in BOOLEAN
       /\ UNCHANGED <<ca_pkey, exts, out, ret>>

loadPrivateKeyFromFile ==
    \/ Load("loadKey", "readKey") /\ New("bio") /\ UNCHANGED <<certs, out, ret>>
    \/ /\ Load("readKey", "sign")
       /\ refs' = Without({"bio"})
       /\ ca_pkey' \in BOOLEAN
       /\ UNCHANGED <<ca_cert, exts, out, ret>>

\* signCert: bad parameters leave the caller's pointers as they were.
BadParameter ==
    /\ pc = "sign" /\ ~(ca_cert /\ ca_pkey)
    /\ Return("false") /\ UNCHANGED <<refs, certs, out>>

\* The pointers are reset and the serial number made, or not.
MakeSerial ==
    /\ pc = "sign" /\ ca_cert /\ ca_pkey
    /\ cert' = "null" /\ pkey' = "null"
    /\ \/ New("serial") /\ pc' = "rsa" /\ UNCHANGED ret
       \/ Return("false") /\ UNCHANGED refs
    /\ UNCHANGED <<certs, keyed, copied>>

\* genRSA frees its exponent only when it fails.
genRSA ==
    /\ pc = "rsa" /\ pc' = "pkey"
    /\ refs' = [refs EXCEPT !["rsa"] = @ + 1, !["bn"] = @ + 1]
    /\ UNCHANGED <<certs, out, ret>>

genRSAFails ==
    /\ pc = "rsa" /\ Return("false")
    /\ refs' = Without({"serial"})
    /\ UNCHANGED <<certs, out>>

MakePkey ==
    /\ pc = "pkey"
    /\ \/ New("pkey") /\ pkey' = "object" /\ pc' = "set1" /\ UNCHANGED ret
       \/ refs' = Without({"rsa", "serial"}) /\ Return("false") /\ UNCHANGED pkey
    /\ UNCHANGED <<certs, cert, keyed, copied>>

\* EVP_PKEY_set1_RSA adds a reference to the key when it returns 1.  Only a negative value
\* is taken for a failure, and *pkey is then left pointing to a freed key.
SetKey(r) ==
    /\ pc = "set1"
    /\ IF r < 0 THEN refs' = Without({"pkey", "rsa", "serial"}) /\ Return("false") /\ UNCHANGED keyed
                ELSE /\ keyed' = (r = 1)
                     /\ refs' = [refs EXCEPT !["rsa"] = @ - (IF r = 1 THEN 0 ELSE 1)]
                     /\ pc' = "cert" /\ UNCHANGED ret
    /\ UNCHANGED <<certs, cert, pkey, copied>>

\* The loop over org_cert's extensions stops at the first subjectAltName.
FindSan(es) ==
    LET at == {i \in 1 .. Len(es) : es[i] = "subjectAltName"}
    IN  IF at = {} THEN <<>> ELSE <<es[CHOOSE i \in at : \A j \in at : i <= j]>>

MakeCert ==
    /\ pc = "cert"
    /\ \/ /\ New("cert") /\ cert' = "object" /\ copied' = FindSan(exts)
          /\ pc' = "fill" /\ UNCHANGED <<pkey, keyed, ret>>
       \/ /\ refs' = Without({"serial", "pkey"}) /\ pkey' = "null" /\ keyed' = FALSE
          /\ Return("false") /\ UNCHANGED <<cert, copied>>
    /\ UNCHANGED certs

\* Both objects are freed and both pointers reset.
GiveUp(also) ==
    /\ refs' = Without({"pkey", "cert"} \cup also)
    /\ pkey' = "null" /\ cert' = "null" /\ keyed' = FALSE /\ copied' = <<>>
    /\ Return("false")

\* X509_set_pubkey and its companions: a pkey without a key is refused.
FillCert ==
    /\ pc = "fill"
    /\ \/ keyed /\ pc' = "x509sign" /\ UNCHANGED <<refs, out, ret>>
       \/ GiveUp({"serial"})
    /\ UNCHANGED certs

X509Sign ==
    /\ pc = "x509sign"
    /\ \/ refs' = Without({"serial"}) /\ Return("true") /\ UNCHANGED out
       \/ GiveUp({"serial"})
    /\ UNCHANGED certs

\* The new certificate is written to a memory BIO and read from there.
storeX509ToPEMStr ==
    \/ /\ pc = "returned" /\ ret = "true" /\ pc' = "stored"
       /\ \/ New("bio")
          \/ UNCHANGED refs
       /\ UNCHANGED <<certs, out, ret>>
    \/ /\ pc = "stored" /\ refs["bio"] = 1 /\ refs' = Without({"bio"})
       /\ UNCHANGED <<pc, certs, out, ret>>

Next ==
    \/ loadX509FromFile \/ loadPrivateKeyFromFile \/ BadParameter \/ MakeSerial \/ genRSA
    \/ genRSAFails \/ MakePkey \/ (\E r \in Set1Results : SetKey(r)) \/ MakeCert \/ FillCert \/ X509Sign
    \/ storeX509ToPEMStr

Spec == Init /\ [][Next]_vars

-----------------------------------------------------------------------------
Held(p) == IF p = "object" THEN 1 ELSE 0

\* When signCert has returned, by whichever of its exits, the only objects that are
\* left are the caller's certificate and key, each once, the RSA key inside the latter,
\* and the exponent that genRSA does not free.
NothingLost ==
    pc = "returned" =>
        /\ refs["serial"] = 0 /\ refs["bio"] = 0
        /\ refs["cert"] = Held(cert) /\ refs["pkey"] = Held(pkey)
        /\ refs["rsa"] = IF keyed THEN 1 ELSE 0
        /\ keyed => pkey = "object"
        /\ refs["bn"] <= 1

\* signCert's answer can be relied on: after "true" both pointers have an object, and the
\* key really has an RSA key although a failure of EVP_PKEY_set1_RSA goes unnoticed; after
\* "false" both are NULL, or were never touched because a parameter was missing.
AnswerHonest ==
    /\ ret = "true" => cert = "object" /\ pkey = "object" /\ keyed
    /\ ret = "false" => cert = pkey /\ cert \in {"null", "unset"}

\* A certificate that signCert has signed has one list of alternative names when org_cert
\* has any, and nothing else of org_cert's extensions.
SanCopied ==
    ret = "true" =>
        copied = IF \E i \in 1 .. Len(exts) : exts[i] = "subjectAltName"
                 THEN <<"subjectAltName">> ELSE <<>>

=============================================================================
