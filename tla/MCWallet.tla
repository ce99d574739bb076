------------------------------ MODULE MCWallet ------------------------------
(***************************************************************************)
(* The wallet side of the library in one state space.  A session either    *)
(* builds a script, fills a push buffer, pays to an address, derives keys, *)
(* streams keys, walks over a signature or keeps service flags.            *)
(***************************************************************************)
EXTENDS ScriptBuilder, Signatures, Wallet

VARIABLE job        \* which session this is

wallet_vars == <<job, builder_vars, push_vars, payment_vars, sig_vars, derive_vars, stream_vars, service_vars>>

Jobs == {"build", "buffer", "pay", "derive", "stream", "sign", "serve"}

\* A session that does not run holds no data.
WalletInit ==
    /\ job \in Jobs
    /\ IF job = "build" THEN BuilderInit
       ELSE script = << >> /\ last_op = << >> /\ built = << >> /\ intact = TRUE /\ pushes = 0
    /\ IF job = "buffer" THEN BufInit ELSE buf = << >> /\ refusal = << >>
    /\ IF job = "pay" THEN PaymentInit
       ELSE issued = << >> /\ parsed = << >> /\ accepted = << >> /\ output = << >>
    /\ IF job = "sign" THEN IterInit
       ELSE signature = << >> /\ pos = 0 /\ front = << >> /\ back = << >> /\ returned = << >>
    /\ IF job = "derive" THEN DeriveInit
       ELSE /\ account = << >> /\ owner = << >> /\ opath = << >> /\ watch = << >> /\ wpath = << >>
            /\ disk = << >> /\ called = << >> /\ calls = 0
    /\ StreamInit
    /\ ServiceInit

WalletNext ==
    \/ /\ job = "build" /\ BuilderNext
       /\ UNCHANGED <<job, push_vars, payment_vars, sig_vars, derive_vars, stream_vars, service_vars>>
    \/ /\ job = "buffer" /\ BufNext
       /\ UNCHANGED <<job, builder_vars, payment_vars, sig_vars, derive_vars, stream_vars, service_vars>>
    \/ /\ job = "pay" /\ PaymentNext
       /\ UNCHANGED <<job, builder_vars, push_vars, sig_vars, derive_vars, stream_vars, service_vars>>
    \/ /\ job = "derive" /\ DeriveNext
       /\ UNCHANGED <<job, builder_vars, push_vars, payment_vars, sig_vars, stream_vars, service_vars>>
    \/ /\ job = "stream" /\ StreamNext
       /\ UNCHANGED <<job, builder_vars, push_vars, payment_vars, sig_vars, derive_vars, service_vars>>
    \/ /\ job = "sign" /\ SigNext
       /\ UNCHANGED <<job, builder_vars, push_vars, payment_vars, derive_vars, stream_vars, service_vars>>
    \/ /\ job = "serve" /\ ServiceNext
       /\ UNCHANGED <<job, builder_vars, push_vars, payment_vars, sig_vars, derive_vars, stream_vars>>

\* What was pushed is what is read and a push buffer can always be pushed
\* (ScriptBuilder), and script templates, witness programs and signature
\* operations agree about a script (Templates, Script).
ScriptsFaithful ==
    /\ job = "build" => BuilderFaithful /\ TemplatesAgree
    /\ job = "buffer" => AlwaysPushable

\* Payments by address arrive and stay on their chain (Address), and a node's
\* flags are its services (Networks).
PaymentsSafe == (job = "pay" => PaymentsSound) /\ (job = "serve" => FlagsFollow)

\* Owner and watch-only wallet stay one (Wallet), and keys and signatures
\* are read back from streams, texts and bytes (Keys, Signatures).
WalletsConsistent ==
    /\ job = "derive" => WalletsAgree /\ TextsReadBack
    /\ job = "stream" => KeysReadBack
    /\ job = "sign" => SignaturesExact

-----------------------------------------------------------------------------
(* Values of the constants *)

Fill(n, b) == [i \in 1..n |-> b]
Count(n) == [i \in 1..n |-> i]

MCInts == {-1, 0, 2, 17, 128, -32768}
MCSlices == {<< >>, <<16>>, <<129>>, <<OP_EQUAL>>, <<1, 2>>, Fill(20, 174), Fill(75, 20), Fill(76, 74),
             Fill(256, 75)}
MCOps == {0, OP_EQUAL, OP_CHECKSIG, OP_CHECKMULTISIG, OP_RESERVED, OP_RETURN}
MCScriptsSet ==
    {<<1>>, <<OP_PUSHDATA1>>, <<OP_PUSHDATA1, 1, 172>>, <<OP_PUSHDATA2, 1>>, <<OP_PUSHDATA2, 1, 0, 135>>,
     <<OP_PUSHDATA4, 0, 0, 0, 255>>, <<OP_PUSHDATA4, 1, 0, 0, 0, 174>>, new_p2pkh(Fill(20, 7)),
     new_p2sh(Fill(20, 0)), new_p2pk(Fill(33, 2)), new_p2pk(Fill(65, 4)), new_p2a,
     new_witness_program(Program(0, Fill(20, 7))), new_witness_program(Program(0, Fill(32, 1))),
     new_witness_program(Program(1, Fill(32, 1))), new_witness_program(Program(16, Fill(40, 1))),
     <<OP_PUSHNUM_1, 3, 1>>, <<81, 2, 1, 2, 81>>, <<81, 1, 9, 81>>, <<82, 1, 9, 1, 8, 82, 174>>,
     <<81, 2, 1, 2, 97, 174>>, <<82, 1, 1, 81, 174>>}
MCChunks == {<< >>, <<0>>, <<1, 0>>, <<0, 1, 1>>, <<1, 1, 1, 1>>}
MCRedeem == <<82, 1, 9, 1, 8, 82, 174>>
MCRoot == Count(32)
MCPastes ==
    {PlainText(Fill(52, 49)), PlainText(Key!encode_check(Count(20))), PlainText(Key!encode_check(Count(21))),
     PlainText(<<48>>), Bech32Text("lt", 0, Count(20))}
MCSchnorr == {Count(64)}
MCDer == {<< >>, <<48, 0>>, <<48, 1, 7>>, <<47, 0>>, <<48, 2, 1>>}
MCSeeds == {<<1>>}
MCOffers == {{0}, {3}, {0, 10}, {5}}
=============================================================================
