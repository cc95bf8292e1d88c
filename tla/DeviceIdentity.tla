--------------------------- MODULE DeviceIdentity ---------------------------
(***************************************************************************)
(* The device identity: a row in SQLite and a private key in the system's  *)
(* secret store, written by separate steps (device.rs, secret_store/*.rs)  *)
(* under IPC requests that run side by side (begin_pairing,                *)
(* cloud_pairing_proof in handlers.rs, make_proof in                       *)
(* cloud_pairing_status.rs).  An identity stands for its device id, its    *)
(* key pair and its fingerprint, which are made together.                  *)
(***************************************************************************)
EXTENDS Sequences, FiniteSets

CONSTANTS
    Identities,     \* the fresh identities OsRng may yield
    Requests,       \* blocking tasks serving IPC requests
    NoIdentity

ASSUME IdentityAssumption == NoIdentity \notin Identities

VARIABLES
    rows,           \* the device table in rowid order
    keys,           \* identities whose key the secret store holds
    pc,             \* where each request is
    mine,           \* the identity a request holds
    proofs          \* signed messages: whom they name and whose key signed

deviceVars == <<rows, keys, pc, mine, proofs>>

\* Variant: the newest row answers.
LoadedLatest(table) == IF table = <<>> THEN NoIdentity ELSE table[Len(table)]

\* load: SELECT ... LIMIT 1.  The scan runs in rowid order, so the first row
\* ever inserted answers.
Loaded(table) == IF table = <<>> THEN NoIdentity ELSE table[1]

\* load_device_key, where the backend answers.
HasDeviceKey(i) == i \in keys

DeviceInit ==
    /\ rows = <<>>
    /\ keys = {}
    /\ pc = [r \in Requests |-> "idle"]
    /\ mine = [r \in Requests |-> NoIdentity]
    /\ proofs = {}

Goto(r, label, i) ==
    /\ pc' = [pc EXCEPT ![r] = label]
    /\ mine' = [mine EXCEPT ![r] = i]

\* begin_pairing: load, and create only if there is none.
BeginPairing(r) ==
    /\ pc[r] = "idle"
    /\ Loaded(rows) = NoIdentity
    /\ Goto(r, "create", NoIdentity)
    /\ UNCHANGED <<rows, keys, proofs>>

\* create loads again and refuses if an identity has appeared; otherwise it
\* generates one.
Create(r) ==
    /\ pc[r] = "create"
    /\ IF Loaded(rows) # NoIdentity
       THEN Goto(r, "idle", NoIdentity)
       ELSE \E i \in Identities \ (keys \cup {mine[x] : x \in Requests}) : Goto(r, "store", i)
    /\ UNCHANGED <<rows, keys, proofs>>

\* Variant: a refusal of the secret store is not noticed.
StoreDeviceKeyUnchecked(r) ==
    /\ pc[r] = "store"
    /\ keys' \in {keys, keys \cup {mine[r]}}
    /\ Goto(r, "insert", mine[r])
    /\ UNCHANGED <<rows, proofs>>

\* store_device_key; a backend error ends the request.
StoreDeviceKey(r) ==
    /\ pc[r] = "store"
    /\ \/ keys' = keys \cup {mine[r]} /\ Goto(r, "insert", mine[r])
       \/ keys' = keys /\ Goto(r, "idle", NoIdentity)
    /\ UNCHANGED <<rows, proofs>>

\* The INSERT; if it fails the stored key stays behind.
InsertDevice(r) ==
    /\ pc[r] = "insert"
    /\ rows' \in {rows, Append(rows, mine[r])}
    /\ Goto(r, "idle", NoIdentity)
    /\ UNCHANGED <<keys, proofs>>

\* cloud_pairing_proof and make_proof: name the loaded identity ...
BeginProof(r) ==
    /\ pc[r] = "idle"
    /\ Loaded(rows) # NoIdentity
    /\ Goto(r, "sign", Loaded(rows))
    /\ UNCHANGED <<rows, keys, proofs>>

\* ... and sign, which loads the row and its key anew.  A missing key or a
\* backend error ends the request.
Sign(r) ==
    /\ pc[r] = "sign"
    /\ \/ /\ HasDeviceKey(Loaded(rows))
          /\ proofs' = proofs \cup {[device |-> mine[r], signer |-> Loaded(rows)]}
       \/ proofs' = proofs
    /\ Goto(r, "idle", NoIdentity)
    /\ UNCHANGED <<rows, keys>>

\* The process dies: requests are gone, row and key stay.
DeviceCrash ==
    /\ pc' = [r \in Requests |-> "idle"]
    /\ mine' = [r \in Requests |-> NoIdentity]
    /\ UNCHANGED <<rows, keys, proofs>>

RequestStep(r) ==
    \/ BeginPairing(r) \/ Create(r) \/ StoreDeviceKey(r) \/ InsertDevice(r)
    \/ BeginProof(r) \/ Sign(r)
=============================================================================
