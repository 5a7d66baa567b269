---------------------------- MODULE MCIommuBoot ----------------------------
(* IommuBoot with grub lines that have nothing, other tokens, tokens of a  *)
(* mode in front and behind, and what a reboot is asked to undo.           *)
EXTENDS IommuBoot

MCLines == { << "quiet", "splash" >>,
             << "vendor_on", "quiet", "iommu_pt" >>,
             << "vendor_off", "quiet", "strict_0" >> }

MCBaseLines == { << >>, << "vendor_off" >>, << "iommu_pt" >> }
=============================================================================
