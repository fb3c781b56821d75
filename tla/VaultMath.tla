------------------------------ MODULE VaultMath ------------------------------
(***************************************************************************)
(* The arithmetic of LemonVault.sol: valuation, the share/asset conversion *)
(* inherited from OpenZeppelin's ERC4626 with its virtual shares, and the  *)
(* dilutive fee accrual.  Every division is the integer division of the    *)
(* contract, with the contract's rounding direction.  Amounts are naturals;*)
(* the 256-bit width is never reached by a USDC amount.                    *)
(***************************************************************************)
EXTENDS Naturals, FiniteSets, Sums

CONSTANTS BPS,            \* denominator of every fee and bound; 10_000 in the code
          YEAR,           \* time units in a year
          VirtualShares,  \* 10 ** _decimalsOffset()
          AssetUnit       \* ASSET_UNIT, the price of one whole share at par

ASSUME UnitsAssumption == {BPS, YEAR, VirtualShares, AssetUnit} \subseteq Nat \ {0}

\* PRICE_UNIT: one whole share.
PriceUnit == AssetUnit * VirtualShares

\* mulDiv with Math.Rounding.Ceil.
CeilDiv(a, b) == (a + b - 1) \div b

Distance(a, b) == IF a > b THEN a - b ELSE b - a

\* Defect: what is owed to fulfilled requests still counts as the holders'.
TotalAssetsWithOwed(idle, out, owed) == idle + out

\* totalAssets() and freeAssets(): both saturate instead of reverting.
TotalAssetsOf(idle, out, owed) == IF idle + out > owed THEN (idle + out) - owed ELSE 0

\* Defect: assets set aside for a fulfilled redemption still count as free.
FreeAssetsIgnoringClaims(idle, owed) == idle

FreeAssetsOf(idle, owed) == IF idle > owed THEN idle - owed ELSE 0

\* _convertToAssets / _convertToShares rounding down, previewMint rounding up.
ConvertToAssets(shares, total, supply) ==
    (shares * (total + 1)) \div (supply + VirtualShares)

ConvertToShares(assets, total, supply) ==
    (assets * (supply + VirtualShares)) \div (total + 1)

AssetsToMint(shares, total, supply) ==
    CeilDiv(shares * (total + 1), supply + VirtualShares)

PricePerShare(total, supply) == ConvertToAssets(PriceUnit, total, supply)

(***************************************************************************)
(* _mintFeeShares: the shares that are worth feeAssets once they exist.    *)
(***************************************************************************)
FeeShares(feeAssets, total, supply) ==
    IF feeAssets = 0 \/ total = 0 \/ feeAssets >= total
    THEN 0
    ELSE (feeAssets * (supply + VirtualShares)) \div (total - feeAssets)

ManagementFee(total, elapsed, l) ==
    (total * (l.managementFeeBps * elapsed)) \div (BPS * YEAR)

PerformanceFee(pps, mark, supply, l) ==
    ((((pps - mark) * supply) \div PriceUnit) * l.performanceFeeBps) \div BPS

\* Defect: the mark is left where it was before the fee.
MarkAfterFeeForgotten(total, supply, mark) == mark

\* The mark is re-read once the fee shares have diluted the price.
MarkAfterFee(total, supply, mark) == PricePerShare(total, supply)

(***************************************************************************)
(* _accrueFees: rent first, then the performance fee over the high-water   *)
(* mark at the price the rent left behind, then the mark re-read after the *)
(* dilution.  With no shares outstanding it only resets the mark to par.   *)
(***************************************************************************)
AccrueFees(total, supply, mark, elapsed, l) ==
    LET rented == supply + FeeShares(ManagementFee(total, elapsed, l), total, supply)
        pps    == PricePerShare(total, rented)
        taxed  == rented + FeeShares(PerformanceFee(pps, mark, rented, l), total, rented)
    IN  IF supply = 0
        THEN [supply |-> supply, mark |-> AssetUnit]
        ELSE IF l.performanceFeeBps > 0 /\ pps > mark
             THEN [supply |-> taxed, mark |-> MarkAfterFee(total, taxed, mark)]
             ELSE [supply |-> rented, mark |-> mark]
=============================================================================
