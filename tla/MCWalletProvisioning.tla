------------------------- MODULE MCWalletProvisioning -------------------------
\* Small instances of wallet construction and provisioning for TLC.  Roots:
\* 11 and 12 are Sigbash's, 3, 5 and 20 external (20 carries the root of 5),
\* 8 is another network's, 9 private, 30 and 31 the probes.
EXTENDS WalletProvisioning

MCXpub == {3, 5, 8, 9, 11, 12, 20, 30, 31}
MCRootOf == [x \in MCXpub |-> IF x = 20 THEN 5 ELSE (x * 7) % 32]
MCNetOf == [x \in MCXpub |-> CASE x \in {8, 31} -> "main" [] x = 9 -> "private"
                               [] OTHER -> "test"]
MCProbe == [main |-> 31, test |-> 30]

S(x) == Signer(Sigbash, x, x, NoOrigin)
E(x) == Signer(External, x, NoId, NoOrigin)
Decorated(x) == Signer(External, x, NoId, "ledger")

Make(by, signers, sets, threshold, mode, key, blocks) ==
  [by |-> by, network |-> "signet", signers |-> signers, sets |-> sets,
   threshold |-> threshold, walletMode |-> mode, recoveryKey |-> key,
   decayBlocks |-> blocks]
Staged(signers, sets) == Make("staged", signers, sets, 0, "mixed", "none", <<>>)

\* One intent of three signers in three presentations, and one with two
\* Sigbash signers.
MCStaged ==
  {Staged(<<S(11), E(3), E(5)>>, <<<<0, 1>>, <<0, 2>>>>),
   Staged(<<E(5), S(11), E(3)>>, <<<<2, 0>>, <<1, 0>>>>),
   Staged(<<S(11), E(5), Decorated(3)>>, <<<<0, 1>>, <<0, 2>>>>),
   Staged(<<S(11), S(12)>>, <<<<0, 1>>>>)}

Record(signers, sets, mode, key, blocks) ==
  Make("record", signers, sets, 0, mode, key, blocks)

\* Records with every shape of recovery; records to be refused (one xpub
\* twice, a private one, another network's, a set without Sigbash's signer, an index too far, a
\* set or a member twice) or with a root under two texts; the templates.
MCDirect ==
  {Record(<<S(11), E(3), E(5)>>, sets, mode, key, blocks) :
     sets \in {<<<<0, 1>>, <<0, 2>>>>, <<<<0>>, <<0, 1>>, <<0, 1, 2>>, <<0, 2>>>>},
     mode \in {"mixed", "sigbash_native"}, key \in {"none", "rescue"},
     blocks \in {<<>>} \cup {<<n>> : n \in {0, 16, 17, 128, 300, 65534, 65535}}}
  \cup {Record(<<S(11), E(x)>>, <<<<0, 1>>>>, "mixed", "none", <<>>) : x \in {11, 9, 8}}
  \cup {Record(<<S(11), E(3), E(5)>>, sets, "mixed", "rescue", <<>>) :
          sets \in {<<<<1, 2>>>>, <<<<0, 3>>>>, <<<<0, 1>>, <<1, 0>>>>, <<>>,
                    <<<<0, 0>>>>}}
  \cup {Record(<<S(11), E(5), E(20)>>, sets, "mixed", "none", <<>>) :
          sets \in {<<<<0, 1, 2>>>>, <<<<0, 1>>, <<0, 2>>>>}}
  \cup {Make("native", <<S(11), S(12), S(3), S(5)>>, <<>>, k, "mixed", "none", <<>>) :
          k \in 0 .. 4}
  \cup {Make("mixed", <<S(11), E(3), E(5), E(30)>>, <<>>, k, "mixed", "none", <<>>) :
          k \in 0 .. 3}

MCSources == MCStaged \cup MCDirect

=============================================================================
