--------------------------- MODULE SecretsAtRest ---------------------------
(***************************************************************************)
(* The secrets in the database: encrypted with the current key on every    *)
(* write, read with the current or any previous key, the plaintext of old  *)
(* installations rewritten in the background of every start of the API,    *)
(* and the rotation of the key.  The rows of one column are modelled; each *)
(* process has the keys it was started with.                               *)
(***************************************************************************)
EXTENDS Integers, FiniteSets

CONSTANTS
    Secrets,          \* rows with a secret
    MaxKeys,          \* keys ever used
    MaxSaves,         \* values saved
    MaxSecretFaults   \* failed row updates and deaths of the API

ASSUME SecretsAssumption == MaxKeys \in Nat \ {0} /\ MaxSaves \in Nat /\ MaxSecretFaults \in Nat

VARIABLES
    stored,     \* what each row holds: a value, and the key it is encrypted with
    ring,       \* the keys of the .env file: the current one is the newest
    keys,       \* the keys each process was started with
    rewrite,      \* encryptExistingSecrets: rows still to write, with the values it read, and whether one failed
    lastSaved,  \* history: the value a user saved last
    overtaken,  \* history: rows saved while a rewrite held the plaintext it had read of them
    rekey,      \* the outcome of db:rekey
    secretFaults

secretVars == <<stored, ring, keys, rewrite, lastSaved, overtaken, rekey, secretFaults>>

Processes == {"api", "worker"}
Plain == 0
NoRewrite == [at |-> "off", todo |-> {}, failed |-> FALSE]

SecretTypeOK ==
    /\ stored \in [Secrets -> [key : 0 .. MaxKeys, val : 0 .. MaxSaves]]
    /\ ring.current \in 1 .. MaxKeys /\ ring.previous \subseteq 1 .. MaxKeys
    /\ \A p \in Processes : keys[p].current \in 1 .. MaxKeys
    /\ rewrite.at \in {"off", "select", "rows", "ended"} /\ \A t \in rewrite.todo : t[1] \in Secrets
    /\ lastSaved \in [Secrets -> 0 .. MaxSaves] /\ overtaken \subseteq Secrets /\ rekey \in {"never", "failed"}
    /\ secretFaults \in 0 .. MaxSecretFaults

----------------------------------------------------------------------------
(* The envelope                                                            *)

\* mutant: only the current key is tried
keyringCurrentOnly(k) == {k.current}

\* keyring: every key a process decrypts with
keyring(k) == {k.current} \cup k.previous

isEncrypted(c) == c.key # Plain
encryptSecret(k, v) == [key |-> k.current, val |-> v]
\* decryptSecret: plaintext passes through, a ciphertext needs one of the keys
Decrypts(k, c) == ~isEncrypted(c) \/ c.key \in keyring(k)

----------------------------------------------------------------------------
(* Requests, jobs and the operator                                         *)

\* a route saves a secret through the column type
SaveSecret(s, v) ==
    /\ (\A x \in Secrets : lastSaved[x] < v) /\ \E x \in Secrets : lastSaved[x] = v - 1
    /\ stored' = [stored EXCEPT ![s] = encryptSecret(keys["api"], v)]
    /\ lastSaved' = [lastSaved EXCEPT ![s] = v]
    /\ overtaken' = IF \E t \in rewrite.todo : t[1] = s THEN overtaken \cup {s} ELSE overtaken \ {s}
    /\ UNCHANGED <<ring, keys, rewrite, rekey, secretFaults>>

\* rotation: the old key moves to ENCRYPTION_KEY_PREVIOUS; processes see it when they start again
RotateKey ==
    /\ ring.current < MaxKeys
    /\ ring' = [current |-> ring.current + 1, previous |-> ring.previous \cup {ring.current}]
    /\ UNCHANGED <<stored, keys, rewrite, lastSaved, overtaken, rekey, secretFaults>>

RestartWorker ==
    /\ keys["worker"] # ring /\ keys' = [keys EXCEPT !["worker"] = ring]
    /\ UNCHANGED <<stored, ring, rewrite, lastSaved, overtaken, rekey, secretFaults>>

\* a start of the API: it listens, and sweeps the old plaintext behind the requests
StartsApi == keys' = [keys EXCEPT !["api"] = ring] /\ rewrite' = [NoRewrite EXCEPT !.at = "select"]
RestartApi ==
    /\ keys["api"] # ring \/ rewrite.at = "off"
    /\ StartsApi
    /\ UNCHANGED <<stored, ring, lastSaved, overtaken, rekey, secretFaults>>

ApiDiesMidway ==
    /\ rewrite.at \in {"select", "rows"} /\ secretFaults < MaxSecretFaults /\ secretFaults' = secretFaults + 1
    /\ StartsApi
    /\ UNCHANGED <<stored, ring, lastSaved, overtaken, rekey>>

\* db:rekey: its query has no quotes around the pattern, so the select of the first column fails and nothing is rewritten
reencryptSecrets ==
    /\ rekey = "never" /\ rekey' = "failed"
    /\ UNCHANGED <<stored, ring, keys, rewrite, lastSaved, overtaken, secretFaults>>

----------------------------------------------------------------------------
(* encryptExistingSecrets                                                  *)

\* the rows of the column that are not encrypted, with their values
SelectPlain ==
    /\ rewrite.at = "select"
    /\ rewrite' = [rewrite EXCEPT !.at = "rows", !.todo = {<<s, stored[s].val>> : s \in {x \in Secrets : ~isEncrypted(stored[x])}}]
    /\ UNCHANGED <<stored, ring, keys, lastSaved, overtaken, rekey, secretFaults>>

\* each row is written back with the value that was read, whatever it holds by now
EncryptRow(t) ==
    /\ rewrite.at = "rows" /\ t \in rewrite.todo
    /\ rewrite' = [rewrite EXCEPT !.todo = @ \ {t}]
    /\ stored' = [stored EXCEPT ![t[1]] = encryptSecret(keys["api"], t[2])]
    /\ UNCHANGED <<ring, keys, lastSaved, overtaken, rekey, secretFaults>>

\* a row that fails is logged and left to the next start
RowFails(t) ==
    /\ rewrite.at = "rows" /\ t \in rewrite.todo
    /\ secretFaults < MaxSecretFaults /\ secretFaults' = secretFaults + 1
    /\ rewrite' = [rewrite EXCEPT !.todo = @ \ {t}, !.failed = TRUE]
    /\ UNCHANGED <<stored, ring, keys, lastSaved, overtaken, rekey>>

EndRewrite ==
    /\ rewrite.at = "rows" /\ rewrite.todo = {}
    /\ rewrite' = [rewrite EXCEPT !.at = "ended"]
    /\ UNCHANGED <<stored, ring, keys, lastSaved, overtaken, rekey, secretFaults>>

----------------------------------------------------------------------------

\* any mix of old plaintext and rows encrypted with the first key
SecretInit ==
    /\ stored \in [Secrets -> [key : {Plain, 1}, val : {0}]]
    /\ ring = [current |-> 1, previous |-> {}] /\ keys = [p \in Processes |-> ring]
    /\ rewrite = NoRewrite /\ lastSaved = [s \in Secrets |-> 0] /\ overtaken = {} /\ rekey = "never" /\ secretFaults = 0

SecretNext ==
    \/ \E s \in Secrets, v \in 1 .. MaxSaves : SaveSecret(s, v)
    \/ RotateKey \/ RestartWorker \/ RestartApi \/ ApiDiesMidway \/ reencryptSecrets
    \/ SelectPlain \/ EndRewrite
    \/ \E t \in rewrite.todo : EncryptRow(t) \/ RowFails(t)

SecretSpec == SecretInit /\ [][SecretNext]_secretVars

----------------------------------------------------------------------------
(* Properties                                                              *)

\* Over rotations, restarts, failed rows and deaths of the API: a process that
\* runs with the keys of the .env file can read every secret there is
\* (decryptSecret); a pass that ended without a failed row leaves no plaintext
\* and none comes back (encryptedText); and a secret is what was saved last
\* unless it was saved while a rewrite held the plaintext of its row
\* (encryptExistingSecrets).
SecretsSound ==
    /\ \A p \in Processes, s \in Secrets : keys[p] = ring => Decrypts(keys[p], stored[s])
    /\ rewrite.at = "ended" /\ ~rewrite.failed => \A s \in Secrets : isEncrypted(stored[s])
    /\ \A s \in Secrets : stored[s].val # lastSaved[s] => s \in overtaken

=============================================================================
