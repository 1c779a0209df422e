----------------------------- MODULE NgnLedger ------------------------------
(***************************************************************************)
(* The ledger of an NGN wallet.  Its entries are signed amounts and the    *)
(* balance only adds them up by type, so a ledger is the sum of its        *)
(* entries of each type.                                                   *)
(***************************************************************************)
EXTENDS Integers

EntryType == {"TOPUP_PENDING", "TOPUP_CONFIRMED", "TOPUP_REVERSED",
              "STAKE_RESERVE", "STAKE_RELEASE", "CONVERSION_DEBIT",
              "WITHDRAWAL_PENDING", "WITHDRAWAL_CONFIRMED", "WITHDRAWAL_FAILED",
              "ADJUSTMENT"}

Ledger == [EntryType -> Int]

NoEntries == [type \in EntryType |-> 0]

CreateLedgerEntry(l, type, amountNgn) == [l EXCEPT ![type] = @ + amountNgn]

\* getBalance.
AvailableNgn(l) ==
  l["TOPUP_CONFIRMED"] + l["TOPUP_REVERSED"] + l["ADJUSTMENT"]
    + l["STAKE_RESERVE"] + l["STAKE_RELEASE"]
    + l["WITHDRAWAL_PENDING"] + l["WITHDRAWAL_FAILED"]

HeldNgn(l) ==
  l["CONVERSION_DEBIT"] + l["WITHDRAWAL_CONFIRMED"]
    - l["STAKE_RESERVE"] - l["STAKE_RELEASE"]
    - l["WITHDRAWAL_PENDING"] - l["WITHDRAWAL_FAILED"]

TotalNgn(l) == AvailableNgn(l) + HeldNgn(l)

-----------------------------------------------------------------------------
(* The entries the conversion saga writes.                                 *)

DebitNgnForConversion(l, amountNgn) ==
  CreateLedgerEntry(l, "CONVERSION_DEBIT", -amountNgn)

\* The refund of a conversion is the reversal of a deposit, which is negative.
ReverseTopUp(l, amountNgn) == CreateLedgerEntry(l, "TOPUP_REVERSED", -amountNgn)

=============================================================================
